---- MODULE Spec2Model ----
(***************************************************************************)
(* A model of the GRIB parsing service of griblet.                         *)
(*                                                                         *)
(*  - parseGribBuffer (src/app/.server/parser.ts): the concurrency         *)
(*    governor (activeParses), the staging of the upload in a temp file    *)
(*    and the multi-time-step pipeline it wraps.                           *)
(*  - parseGribToMultiTimeVelocityJson: probe, metadata listing, component *)
(*    matching, the per-hour pair of point dumps.                          *)
(*  - parseAndCacheGrib (src/unnamed/part_001) under getGribVelocityData   *)
(*    and deleteGrib (src/app/routes.ts): the cache file of a record.      *)
(*  - the time slider of the viewer (TimeSlider.tsx).                      *)
(*                                                                         *)
(* The event loop is single threaded: an action is the code that runs      *)
(* between two awaits of one call.                                         *)
(***************************************************************************)
EXTENDS Integers, Sequences, FiniteSets, TLC

\* ------------------------------------------------------------------ bounds

\* const MAX_CONCURRENT_PARSES = 2
MAX_CONCURRENT_PARSES == 2

\* bound: Date.now() returns values in 0..MaxClock; with 0 the calls of a
\* behaviour all fall into one millisecond
MaxClock == 0

\* ------------------------------------------------------------------ calls

\* N+1 calls of parseGribBuffer, N the capacity of the governor, numbered in
\* the order of their arrival
Calls == 1 .. (MAX_CONCURRENT_PARSES + 1)

\* the file name each call uploads: calls 1 and 2 upload files of the same
\* name, the last call one of another name
FilenameOf(c) == IF c <= MAX_CONCURRENT_PARSES THEN "a.grb" ELSE "b.grb"

Filenames == {FilenameOf(c) : c \in Calls}

\* join(tempDir, `${Date.now()}_${filename}`)
TempPathOf(now, filename) == <<now, filename>>

TempPaths == {TempPathOf(t, f) : t \in 0 .. MaxClock, f \in Filenames}

NoPath == <<-1, "">>

\* the number of writes the writeFile of an upload takes
UploadChunks == 2

\* no file at a temp path
NoFile == <<>>

\* a file that has just been created or truncated
EmptyFile == [i \in 1 .. UploadChunks |-> 0]

\* the upload of call c, written in full
UploadOf(c) == [i \in 1 .. UploadChunks |-> c]

\* a call that is not writing its upload; kept tells that the unlink of its
\* temp file has failed
NoUpload == [sent |-> 0, gone |-> FALSE, kept |-> FALSE]

\* bound: what the environment does on its own in one behaviour: its
\* failures (a process that cannot be spawned or exits with an error, a file
\* operation that fails) and the checkEccodes calls made outside a parse
\* whose probe is running
MaxFaults == 1

VARIABLES
  activeParses,      \* let activeParses = 0
  eccodesAvailable,  \* let eccodesAvailable: boolean | null ("null", "true", "false")
  clock,             \* the last value Date.now() returned
  tempFiles,         \* temp path -> what the file holds, part by part: the
                     \* call that wrote the part, 0 for a part not written;
                     \* <<>> when there is no file
  upload,            \* the writeFile of each call: the parts it has written,
                     \* whether the file it opened has been unlinked, and
                     \* whether the unlink of its finally block has failed
  pc,                \* where each call stands
  err,               \* the error a call throws ("ok" when it returns a series)
  errMessage,        \* the variable names the message of that error lists
  probes,            \* how many times grib_ls -V has been spawned
  checking,          \* the checkEccodes calls made outside a parse whose
                     \* probe is running
  viaBuffer,         \* TRUE when the pipeline runs inside parseGribBuffer
  tempPath,          \* the temp path of the call
  msgs,              \* the message list getGribMetadata returned to the call
  hoursLeft,         \* the forecast hours the loop has not yet visited
  timeSteps,         \* the time steps pushed so far
  child,             \* the two point-dump decoder processes of the call
  decs,              \* how many times the call decremented activeParses
  file,              \* the messages of the file a direct parse is given, as
                     \* the decoder lists them
  gMsg,              \* parseTimeStep: uMessage
  gOutput,           \* the lines grib_get_data prints for the eastward message
  gPc,               \* where parseTimeStep stands
  gData,             \* [uData, vData] once Promise.all has resolved
  gResult,           \* the VelocityData parseTimeStep returns
  disk,              \* parseAndCacheGrib: what each path of the uploads
                     \* directory holds
  grib,              \* the record getGribVelocityData has read
  cache,             \* each parseAndCacheGrib call: where it stands, what
                     \* it has found, spawned, written and returned
  calc               \* a function applied on its own: its input, its
                     \* results so far and where the application stands

parseVars == <<activeParses, eccodesAvailable, clock, tempFiles, pc,
               err, viaBuffer, tempPath, msgs, hoursLeft, timeSteps, child, decs, errMessage,
               probes, upload, checking>>

gridVars == <<gMsg, gOutput, gPc, gData, gResult>>

cacheVars == <<disk, grib, cache>>

vars == <<parseVars, file, gridVars, cacheVars, calc>>

\* what no step of a parse changes
outsideParse == <<file, gridVars, cacheVars, calc>>

\* what no step of parseTimeStep changes
outsideGrid == <<parseVars, file, cacheVars, calc>>

\* what no step of parseAndCacheGrib changes
outsideCache == <<parseVars, file, gridVars, calc>>

\* what the application of a function on its own does not change
outsideCalc == <<parseVars, file, gridVars, cacheVars>>

\* ------------------------------------------------------- metadata listing

\* parseStepRange: the decoder reports stepRange as a number or as a string
\* such as "0-6". The raw value is modelled by its '-'-separated numeric
\* parts: <<6>> for 6 or "6", <<0, 6>> for "0-6", <<>> for a value that is
\* neither a number nor a numeric string (parseInt(...) || 0, or return 0).
parseStepRange(stepRange) ==
  IF Len(stepRange) = 0 THEN 0 ELSE stepRange[Len(stepRange)]

\* result.messages.map((msg, idx) => ({..., stepRange: parseStepRange(..),
\* messageNumber: idx + 1}))
getGribMetadata(raw) ==
  [i \in 1 .. Len(raw) |->
     [shortName |-> raw[i].shortName,
      level |-> raw[i].level,
      typeOfLevel |-> raw[i].typeOfLevel,
      stepRange |-> parseStepRange(raw[i].stepRange),
      messageNumber |-> i]]

\* ------------------------------------------------------ component matching

InSeq(x, s) == \E i \in 1 .. Len(s) : s[i] = x

IsUName(m) == m.shortName = "10u" \/ m.shortName = "u"

IsVName(m) == m.shortName = "10v" \/ m.shortName = "v"

\* the level test of both filters, with the component's 10-metre short name
LevelMatches(m, tenMetreName) ==
  \/ (m.typeOfLevel = "heightAboveGround" /\ m.level = 10)
  \/ m.typeOfLevel = "surface"
  \/ m.shortName = tenMetreName

IsPrimaryU(m) == IsUName(m) /\ LevelMatches(m, "10u")

IsPrimaryV(m) == IsVName(m) /\ LevelMatches(m, "10v")

\* const uMessages = messages.filter(...) ; const vMessages = messages.filter(...)
PrimaryU(ms) == SelectSeq(ms, IsPrimaryU)

PrimaryV(ms) == SelectSeq(ms, IsPrimaryV)

\* const uAny = ... ; const vAny = ...
AnyU(ms) == SelectSeq(ms, IsUName)

AnyV(ms) == SelectSeq(ms, IsVName)

\* if (uMessages.length === 0 || vMessages.length === 0)
NeedFallback(ms) == Len(PrimaryU(ms)) = 0 \/ Len(PrimaryV(ms)) = 0

\* mutant: the error is thrown only when both components are missing
ComponentNotFoundBoth(ms) ==
  NeedFallback(ms) /\ (Len(AnyU(ms)) = 0 /\ Len(AnyV(ms)) = 0)

\* if (uAny.length === 0 || vAny.length === 0) throw "Could not find U/V ..."
ComponentNotFound(ms) ==
  NeedFallback(ms) /\ (Len(AnyU(ms)) = 0 \/ Len(AnyV(ms)) = 0)

\* mutant: the candidates of the fallback are taken in the order of the file
PushMissingFileOrder(primary, any) == any

\* xMessages.push(...xAny.filter((m) => !xMessages.includes(m)))
PushMissing(primary, any) ==
  LET Missing(m) == ~InSeq(m, primary) IN primary \o SelectSeq(any, Missing)

UMessages(ms) ==
  IF NeedFallback(ms) THEN PushMissing(PrimaryU(ms), AnyU(ms)) ELSE PrimaryU(ms)

VMessages(ms) ==
  IF NeedFallback(ms) THEN PushMissing(PrimaryV(ms), AnyV(ms)) ELSE PrimaryV(ms)

\* [...new Set(xs)]: the distinct values of xs in the order of their first
\* occurrence
FirstSeen(xs) ==
  LET first(i) == \A k \in 1 .. (i - 1) : xs[k] # xs[i]
      kept == SelectSeq([i \in 1 .. Len(xs) |-> i], first)
  IN [n \in 1 .. Len(kept) |-> xs[kept[n]]]

\* [...new Set(values)].sort((a, b) => a - b)
RECURSIVE SortedSeq(_)
SortedSeq(S) ==
  IF S = {} THEN <<>>
  ELSE LET lo == CHOOSE x \in S : \A y \in S : x <= y
       IN <<lo>> \o SortedSeq(S \ {lo})

\* mutant: the distinct hours are left in the order of the messages
ForecastHoursUnsorted(ms) ==
  FirstSeen([i \in 1 .. Len(UMessages(ms)) |-> UMessages(ms)[i].stepRange])

ForecastHours(ms) ==
  SortedSeq({UMessages(ms)[i].stepRange : i \in 1 .. Len(UMessages(ms))})

\* xMessages.find((m) => m.stepRange === forecastHour); 0 stands for undefined
FindMessage(xs, forecastHour) ==
  IF \E i \in 1 .. Len(xs) : xs[i].stepRange = forecastHour
  THEN xs[CHOOSE i \in 1 .. Len(xs) :
            /\ xs[i].stepRange = forecastHour
            /\ \A k \in 1 .. (i - 1) : xs[k].stepRange # forecastHour].messageNumber
  ELSE 0

\* if (!uMsg || !vMsg) { console.warn(...); continue; }
HasPair(ms, forecastHour) ==
  /\ FindMessage(UMessages(ms), forecastHour) # 0
  /\ FindMessage(VMessages(ms), forecastHour) # 0

\* mutant: an hour without a pair ends the loop
SkipMissingAborts(ms, hours) ==
  IF hours = <<>> THEN <<>>
  ELSE IF HasPair(ms, Head(hours)) THEN hours
  ELSE <<>>

\* the loop runs on, skipping the hours without a pair, to the first hour
\* whose two point dumps it awaits
RECURSIVE SkipMissing(_, _)
SkipMissing(ms, hours) ==
  IF hours = <<>> THEN <<>>
  ELSE IF HasPair(ms, Head(hours)) THEN hours
  ELSE SkipMissing(ms, Tail(hours))

\* -------------------------------------------------------- grid of a message

\* A line of the point dump is the sequence of its whitespace-separated
\* fields. A field is a number (given in whole units), a word that parseFloat
\* turns into NaN, or the word "Latitude" that starts the header line.
Num(v) == [kind |-> "num", v |-> v]

Word == [kind |-> "word", v |-> 0]

LatitudeWord == [kind |-> "Latitude", v |-> 0]

\* isNaN(parseFloat(field))
IsNaN(field) == field.kind # "num"

\* if (!trimmed || trimmed.startsWith("Latitude")) continue;
\* if (parts.length < 3) continue;
IsSkipped(line) ==
  \/ Len(line) = 0
  \/ line[1].kind = "Latitude"
  \/ Len(line) < 3

\* mutant: 180 itself is rebased too
NormalizeLonFrom180(lon) == IF lon >= 180 THEN lon - 360 ELSE lon

\* mutant: the wrong offset is subtracted
NormalizeLonHalfTurn(lon) == IF lon > 180 THEN lon - 180 ELSE lon

\* if (lon > 180) lon -= 360
NormalizeLon(lon) == IF lon > 180 THEN lon - 360 ELSE lon

\* first pass: the lines whose latitude and longitude enter the bounds
\* (if (isNaN(lat) || isNaN(lon)) continue)
InBounds(line) == ~IsSkipped(line) /\ ~IsNaN(line[1]) /\ ~IsNaN(line[2])

\* second pass: the lines that are written to the grid
\* (if (isNaN(lat) || isNaN(lon) || isNaN(value)) continue)
IsPoint(line) == InBounds(line) /\ ~IsNaN(line[3])

LatOf(line) == line[1].v

LonOf(line) == NormalizeLon(line[2].v)

SetMin(S) == CHOOSE x \in S : \A y \in S : x <= y

SetMax(S) == CHOOSE x \in S : \A y \in S : x >= y

\* minLat, maxLat, minLon, maxLon after the first pass; with no line in the
\* bounds they stay at +-Infinity and `empty` holds
Bounds(lines) ==
  LET idx == {n \in 1 .. Len(lines) : InBounds(lines[n])}
      lats == {LatOf(lines[n]) : n \in idx}
      lons == {LonOf(lines[n]) : n \in idx}
  IN IF idx = {}
       THEN [empty |-> TRUE, minLat |-> 0, maxLat |-> 0, minLon |-> 0, maxLon |-> 0]
       ELSE [empty |-> FALSE, minLat |-> SetMin(lats), maxLat |-> SetMax(lats),
             minLon |-> SetMin(lons), maxLon |-> SetMax(lons)]

\* const dLat = ny > 1 ? (maxLat - minLat) / (ny - 1) : 1, as the fraction
\* num / den; likewise dLon
Delta(extent, n) ==
  IF n > 1 THEN [num |-> extent, den |-> n - 1] ELSE [num |-> 1, den |-> 1]

RECURSIVE GCD(_, _)
GCD(a, b) == IF b = 0 THEN a ELSE GCD(b, a % b)

\* 2^s mod m
RECURSIVE Pow2Mod(_, _)
Pow2Mod(s, m) == IF s = 0 THEN 1 % m ELSE (2 * Pow2Mod(s - 1, m)) % m

RECURSIVE Pow2(_)
Pow2(k) == IF k = 0 THEN 1 ELSE 2 * Pow2(k - 1)

RECURSIVE Log2Up(_, _)
Log2Up(n, d) == IF 2 * d <= n THEN 1 + Log2Up(n, 2 * d) ELSE 0

RECURSIVE Log2Down(_, _)
Log2Down(n, d) == IF n < d THEN Log2Down(2 * n, d) - 1 ELSE 0

\* the exponent e of the double nearest to n / d: 2^e <= n / d < 2^(e + 1)
FloorLog2(n, d) == IF n >= d THEN Log2Up(n, d) ELSE Log2Down(n, d)

\* The quotient extent / (n - 1) is a double: n / d (in lowest terms) rounded
\* to 53 bits, ties to even. With s = 52 - e, n * 2^s = M * d + rho; the
\* double is (M + 1) * 2^-s when it is rounded up, d - rho parts of d above
\* the quotient, else M * 2^-s, rho parts below. The result is that excess,
\* in parts of d of a unit in the last place: > 0 when the double is larger.
DoubleExcess(n, d) ==
  LET s == 52 - FloorLog2(n, d)
      rho == ((n % d) * Pow2Mod(s, d)) % d
      odd == ((n % (2 * d)) * Pow2Mod(s, 2 * d)) % (2 * d) >= d
      up == 2 * rho > d \/ (2 * rho = d /\ odd)
  IN IF up THEN d - rho ELSE 0 - rho

\* offset / delta is exactly k + 1/2, k + 1/2 = m / 2: the double the code
\* computes, offset divided by the double of delta, is below k + 1/2 when
\* delta was rounded up by more than half the gap between k + 1/2 and the
\* double before it (the gap is halved below 1/2, a power of two)
TieFallsBelow(offset, delta) ==
  LET g == GCD(delta.num, delta.den)
      n == delta.num \div g
      d == delta.den \div g
      c == DoubleExcess(n, d)
      m == (2 * offset * d) \div n
      l == FloorLog2(n, d) + 1 + (IF m = 1 THEN 1 ELSE 0)
      r == FloorLog2(m, 2) + 1
      low == IF l <= r THEN l ELSE r
  IN c > 0 /\ m * c * Pow2(l - low) > n * Pow2(r - low)

\* Math.round(offset / delta) for offset >= 0. Math.round(x) is
\* floor(x + 0.5); x is the double offset / delta, which differs from the
\* exact quotient by less than the distance of that quotient to k + 1/2
\* unless the quotient is k + 1/2 itself; 0 / 0 is NaN, for which every
\* comparison of the range test fails, modelled as the index -1
RoundDiv(offset, delta) ==
  IF delta.num = 0 THEN -1
  ELSE LET exact == (2 * offset * delta.den + delta.num) \div (2 * delta.num)
           tie == (2 * offset * delta.den) % (2 * delta.num) = delta.num
       IN IF tie /\ TieFallsBelow(offset, delta) THEN exact - 1 ELSE exact

\* the cell of a point: i = round((lon - minLon) / dLon),
\* j = round((maxLat - lat) / dLat); inside: the range test of the write
CellOf(line, b, nx, ny) ==
  LET i == RoundDiv(LonOf(line) - b.minLon, Delta(b.maxLon - b.minLon, nx))
      j == RoundDiv(b.maxLat - LatOf(line), Delta(b.maxLat - b.minLat, ny))
  IN [i |-> i, j |-> j, inside |-> i >= 0 /\ i < nx /\ j >= 0 /\ j < ny]

\* Math.fround(v) for a whole number v: the nearest 32-bit float, of 24
\* significant bits, ties to even; what a Float32Array keeps of a value
Fround(v) ==
  LET a == IF v < 0 THEN 0 - v ELSE v
      ulp == IF a < 16777216 THEN 1 ELSE Pow2(FloorLog2(a, 1) - 23)
      q == a \div ulp
      r == a % ulp
      up == 2 * r > ulp \/ (2 * r = ulp /\ q % 2 = 1)
      m == (IF up THEN q + 1 ELSE q) * ulp
  IN IF a < 16777216 THEN v ELSE IF v < 0 THEN 0 - m ELSE m

\* second pass over the lines: grid[j * nx + i] = value, grid being a
\* Float32Array
RECURSIVE Populate(_, _, _, _, _)
Populate(lines, grid, b, nx, ny) ==
  IF lines = <<>> THEN grid
  ELSE LET line == Head(lines)
           cell == CellOf(line, b, nx, ny)
           next == IF IsPoint(line) /\ cell.inside
                     THEN [grid EXCEPT ![cell.j * nx + cell.i + 1] =
                                         Fround(line[3].v)]
                     ELSE grid
       IN Populate(Tail(lines), next, b, nx, ny)

\* mutant: only the cells that received a sample are returned
ExtractSparse(lines, nx, ny) ==
  LET grid == Populate(lines, [n \in 1 .. nx * ny |-> 0], Bounds(lines), nx, ny)
  IN SelectSeq(grid, LAMBDA x : x # 0)

\* extractMessageData once the dump has been read: new Float32Array(nx * ny),
\* the two passes, Array.from(grid)
ExtractMessageData(lines, nx, ny) ==
  Populate(lines, [n \in 1 .. nx * ny |-> 0], Bounds(lines), nx, ny)

\* buildHeader: the fields that vary
buildHeader(parameterNumber, nx, ny, la1, lo1, la2, lo2, dx, dy, forecastTime) ==
  [parameterNumber |-> parameterNumber,
   forecastTime |-> forecastTime,
   numberPoints |-> nx * ny,
   nx |-> nx, ny |-> ny,
   lo1 |-> lo1, la1 |-> la1, lo2 |-> lo2, la2 |-> la2,
   dx |-> dx, dy |-> dy]

Max2(a, b) == IF a >= b THEN a ELSE b

Min2(a, b) == IF a <= b THEN a ELSE b

\* mutant: the corners are passed on in the order of the message
parseTimeStepAsScanned(m, uData, vData) ==
  LET hdr(n) == buildHeader(n, m.Ni, m.Nj,
                            m.latitudeOfFirstGridPoint,
                            NormalizeLon(m.longitudeOfFirstGridPoint),
                            m.latitudeOfLastGridPoint,
                            NormalizeLon(m.longitudeOfLastGridPoint),
                            m.iDirectionIncrement, m.jDirectionIncrement,
                            m.stepRange)
  IN <<[header |-> hdr(2), data |-> uData], [header |-> hdr(3), data |-> vData]>>

\* parseTimeStep once both dumps are in: the corner coordinates, the two
\* headers and the two components; m is uMessage
parseTimeStep(m, uData, vData) ==
  LET nx == m.Ni
      ny == m.Nj
      lon1 == NormalizeLon(m.longitudeOfFirstGridPoint)
      lon2 == NormalizeLon(m.longitudeOfLastGridPoint)
      la1 == Max2(m.latitudeOfFirstGridPoint, m.latitudeOfLastGridPoint)
      la2 == Min2(m.latitudeOfFirstGridPoint, m.latitudeOfLastGridPoint)
      lo1 == Min2(lon1, lon2)
      lo2 == Max2(lon1, lon2)
      hdr(n) == buildHeader(n, nx, ny, la1, lo1, la2, lo2,
                            m.iDirectionIncrement, m.jDirectionIncrement,
                            m.stepRange)
  IN <<[header |-> hdr(2), data |-> uData], [header |-> hdr(3), data |-> vData]>>

\* ------------------------------------------------------------ sample files

RawMsg(sn, tol, lvl, step) ==
  [shortName |-> sn, typeOfLevel |-> tol, level |-> lvl, stepRange |-> step]

U10(step) == RawMsg("10u", "heightAboveGround", 10, step)

V10(step) == RawMsg("10v", "heightAboveGround", 10, step)

\* the listing the decoder returns for the files uploaded to parseGribBuffer:
\* both components at one hour
UploadListings ==
  { <<U10(<<0>>), V10(<<0>>)>> }

\* --------------------------------------------------------- process states

NoChildren == [u |-> "none", v |-> "none"]

\* decoder processes that have been spawned and have not exited
RunningProcs ==
  {<<c, "grib_ls -V">> : c \in {x \in Calls : pc[x] = "probing"}}
    \cup {<<c, "grib_ls">> : c \in {x \in Calls : pc[x] = "meta"}}
    \cup {<<c, "grib_get_data u">> : c \in {x \in Calls : child[x].u = "running"}}
    \cup {<<c, "grib_get_data v">> : c \in {x \in Calls : child[x].v = "running"}}

Finished(c) == pc[c] \in {"returned", "thrown"}

\* children that are still running stay so; the others are forgotten
Orphans(ch) ==
  [u |-> IF ch.u = "running" THEN "running" ELSE "none",
   v |-> IF ch.v = "running" THEN "running" ELSE "none"]

\* the errors a call throws when the environment fails it
EnvErrors == {"MkdirFailed", "WriteFailed", "SpawnFailed", "DecodeFailure"}

\* the failures of the environment so far (the calls it has failed, the
\* unlinks it has failed, and the probe that could not be spawned) and the
\* probes running for a checkEccodes call made outside a parse
ParseFaults ==
  Cardinality({c \in Calls : err[c] \in EnvErrors})
    + Cardinality({c \in Calls : upload[c].kept})
    + (IF eccodesAvailable = "false" THEN 1 ELSE 0)
    + checking

\* the environment may fail, or check, once more
MayFail == ParseFaults < MaxFaults

\* ------------------------------------------------- leaving the pipeline

\* finally { activeParses--; try { await unlink(tempPath) } catch {} }
FinallyRelease(c) ==
  /\ activeParses' = activeParses - 1
  /\ decs' = [decs EXCEPT ![c] = @ + 1]
  /\ pc' = [pc EXCEPT ![c] = "unlink"]

\* The pipeline of call c ends with outcome e ("ok", with the series `steps`,
\* or an error). Its locals die. Inside parseGribBuffer the finally block
\* runs at once; called directly, the promise settles.
SettleWith(c, e, steps, names) ==
  /\ err' = [err EXCEPT ![c] = e]
  /\ errMessage' = [errMessage EXCEPT ![c] = names]
  /\ msgs' = [msgs EXCEPT ![c] = <<>>]
  /\ hoursLeft' = [hoursLeft EXCEPT ![c] = <<>>]
  /\ timeSteps' = [timeSteps EXCEPT ![c] = steps]
  /\ IF viaBuffer[c]
       THEN FinallyRelease(c)
       ELSE /\ pc' = [pc EXCEPT ![c] = IF e = "ok" THEN "returned" ELSE "thrown"]
            /\ UNCHANGED <<activeParses, decs>>

Settle(c, e, steps) == SettleWith(c, e, steps, <<>>)

\* the call awaits at p
Await(c, p) ==
  /\ pc' = [pc EXCEPT ![c] = p]
  /\ UNCHANGED <<err, activeParses, decs, errMessage>>

\* ------------------------------------------ parseGribToMultiTimeVelocityJson

\* getGribMetadata: Bun.spawn(["grib_ls", ...]) starts the listing, or throws
SpawnMetadata(c) ==
  \/ Await(c, "meta") /\ UNCHANGED <<msgs, hoursLeft, timeSteps>>
  \/ MayFail /\ Settle(c, "SpawnFailed", <<>>)

\* checkEccodes up to its first await, and what follows a cached answer:
\* the probe is spawned (or Bun.spawn throws) only while the cache is null
EnterPipeline(c) ==
  IF eccodesAvailable = "true"
    THEN SpawnMetadata(c) /\ UNCHANGED <<eccodesAvailable, probes>>
  ELSE IF eccodesAvailable = "false"
    THEN Settle(c, "DecoderUnavailable", <<>>)
         /\ UNCHANGED <<eccodesAvailable, probes>>
  ELSE \/ /\ Await(c, "probing")
          /\ probes' = probes + 1
          /\ UNCHANGED <<eccodesAvailable, msgs, hoursLeft, timeSteps>>
       \/ /\ MayFail
          /\ eccodesAvailable' = "false"
          /\ Settle(c, "DecoderUnavailable", <<>>)
          /\ UNCHANGED probes

\* await proc.exited of the probe: eccodesAvailable = true, then the listing
ProbeExit(c) ==
  /\ UNCHANGED <<outsideParse, probes, checking>>
  /\ pc[c] = "probing"
  /\ eccodesAvailable' = "true"
  /\ SpawnMetadata(c)
  /\ UNCHANGED <<clock, tempFiles, upload, viaBuffer, tempPath, child>>

\* Promise.all([extractMessageData(u), extractMessageData(v)]): both decoder
\* processes are spawned; a spawn that throws rejects the pair at once
StartHour(c, ms, hours, steps) ==
  \E su, sv \in {"running", "failed"} :
     IF su = "failed" \/ sv = "failed"
       THEN /\ MayFail
            /\ child' = [child EXCEPT ![c] = Orphans([u |-> su, v |-> sv])]
            /\ Settle(c, "SpawnFailed", <<>>)
       ELSE /\ child' = [child EXCEPT ![c] = [u |-> su, v |-> sv]]
            /\ msgs' = [msgs EXCEPT ![c] = ms]
            /\ hoursLeft' = [hoursLeft EXCEPT ![c] = hours]
            /\ timeSteps' = [timeSteps EXCEPT ![c] = steps]
            /\ Await(c, "hour")

\* mutant: the series is returned without the test of its length
RunLoopReturnsEmpty(c, ms, hours, steps) ==
  LET rest == SkipMissing(ms, hours) IN
  IF rest # <<>>
    THEN StartHour(c, ms, rest, steps)
    ELSE /\ child' = [child EXCEPT ![c] = NoChildren]
         /\ Settle(c, "ok", steps)

\* the for loop from the hours not yet visited: skip the hours without a
\* pair; await the dumps of the next hour, or leave the loop
RunLoop(c, ms, hours, steps) ==
  LET rest == SkipMissing(ms, hours) IN
  IF rest # <<>>
    THEN StartHour(c, ms, rest, steps)
    ELSE /\ child' = [child EXCEPT ![c] = NoChildren]
         /\ IF Len(steps) = 0
              THEN Settle(c, "EmptySeries", <<>>)
              ELSE Settle(c, "ok", steps)

\* mutant: every message's short name is listed
AllNames(ms) == [i \in 1 .. Len(ms) |-> ms[i].shortName]

\* const availableVars = [...new Set(messages.map((m) => m.shortName))]
AvailableVars(ms) == FirstSeen([i \in 1 .. Len(ms) |-> ms[i].shortName])

\* what follows the listing: the message count, the matching, the loop
AfterMetadata(c, ms) ==
  IF Len(ms) = 0
    THEN Settle(c, "NoMessages", <<>>) /\ UNCHANGED child
  ELSE IF ComponentNotFound(ms)
    THEN SettleWith(c, "ComponentNotFound", <<>>, AvailableVars(ms))
         /\ UNCHANGED child
  ELSE RunLoop(c, ms, ForecastHours(ms), <<>>)

\* the listing exits: a failure, or the messages of one of the files of L
MetaExit(c, L) ==
  /\ UNCHANGED <<outsideParse, probes, checking>>
  /\ pc[c] = "meta"
  /\ UNCHANGED <<eccodesAvailable, clock, tempFiles, upload, viaBuffer, tempPath>>
  /\ \/ MayFail /\ Settle(c, "DecodeFailure", <<>>) /\ UNCHANGED child
     \/ \E raw \in L : AfterMetadata(c, getGribMetadata(raw))

\* timeSteps.push({forecastHour, validTime, data})
TimeStepOf(ms, forecastHour) ==
  [forecastHour |-> forecastHour,
   u |-> FindMessage(UMessages(ms), forecastHour),
   v |-> FindMessage(VMessages(ms), forecastHour)]

\* mutant: a failed point dump ends the loop and the steps built so far
\* are returned
ChildExitPartial(c, k) ==
  /\ UNCHANGED <<outsideParse, probes, checking>>
  /\ child[c][k] = "running"
  /\ UNCHANGED <<eccodesAvailable, clock, tempFiles, upload, viaBuffer, tempPath>>
  /\ IF pc[c] # "hour"
       THEN /\ child' = [child EXCEPT ![c][k] = "none"]
            /\ UNCHANGED <<pc, err, activeParses, decs, errMessage, msgs, hoursLeft,
                           timeSteps>>
       ELSE \/ LET ch == [child[c] EXCEPT ![k] = "ok"] IN
               IF ch.u = "ok" /\ ch.v = "ok"
                 THEN RunLoop(c, msgs[c], Tail(hoursLeft[c]),
                              Append(timeSteps[c],
                                     TimeStepOf(msgs[c], Head(hoursLeft[c]))))
                 ELSE /\ child' = [child EXCEPT ![c] = ch]
                      /\ Await(c, "hour")
                      /\ UNCHANGED <<msgs, hoursLeft, timeSteps>>
            \/ /\ MayFail
               /\ child' = [child EXCEPT ![c] = Orphans([@ EXCEPT ![k] = "failed"])]
               /\ IF timeSteps[c] = <<>>
                    THEN Settle(c, "DecodeFailure", <<>>)
                    ELSE Settle(c, "ok", timeSteps[c])

\* mutant: the loop goes on as soon as one of the two dumps is in
ChildExitEager(c, k) ==
  /\ UNCHANGED <<outsideParse, probes, checking>>
  /\ child[c][k] = "running"
  /\ pc[c] = "hour"
  /\ UNCHANGED <<eccodesAvailable, clock, tempFiles, upload, viaBuffer, tempPath>>
  /\ RunLoop(c, msgs[c], Tail(hoursLeft[c]),
             Append(timeSteps[c], TimeStepOf(msgs[c], Head(hoursLeft[c]))))

\* a point-dump process of the call exits
ChildExit(c, k) ==
  /\ UNCHANGED <<outsideParse, probes, checking>>
  /\ child[c][k] = "running"
  /\ UNCHANGED <<eccodesAvailable, clock, tempFiles, upload, viaBuffer, tempPath>>
  /\ IF pc[c] # "hour"
       THEN \* the call has already failed: nobody awaits this process
            /\ child' = [child EXCEPT ![c][k] = "none"]
            /\ UNCHANGED <<pc, err, activeParses, decs, errMessage, msgs, hoursLeft,
                           timeSteps>>
       ELSE \/ \* exit code 0: the grid of this component is built
               LET ch == [child[c] EXCEPT ![k] = "ok"] IN
               IF ch.u = "ok" /\ ch.v = "ok"
                 THEN RunLoop(c, msgs[c], Tail(hoursLeft[c]),
                              Append(timeSteps[c],
                                     TimeStepOf(msgs[c], Head(hoursLeft[c]))))
                 ELSE /\ child' = [child EXCEPT ![c] = ch]
                      /\ Await(c, "hour")
                      /\ UNCHANGED <<msgs, hoursLeft, timeSteps>>
            \/ \* exit code # 0: throw "grib_get_data failed"
               /\ MayFail
               /\ child' = [child EXCEPT ![c] = Orphans([@ EXCEPT ![k] = "failed"])]
               /\ Settle(c, "DecodeFailure", <<>>)

\* ---------------------------------------------------------- parseGribBuffer

\* mutant: the capacity test off by one
AtCapacityOffByOne == activeParses > MAX_CONCURRENT_PARSES

\* if (activeParses >= MAX_CONCURRENT_PARSES) throw "Server busy ..."
AtCapacity == activeParses >= MAX_CONCURRENT_PARSES

\* mutant: the counter is incremented before the capacity test
CallIncrementFirst(c) ==
  /\ UNCHANGED <<outsideParse, probes, checking>>
  /\ pc[c] = "idle"
  /\ \A d \in Calls : d < c => pc[d] # "idle"
  /\ viaBuffer[c]
  /\ activeParses' = activeParses + 1
  /\ IF activeParses + 1 > MAX_CONCURRENT_PARSES
       THEN /\ pc' = [pc EXCEPT ![c] = "thrown"]
            /\ err' = [err EXCEPT ![c] = "ServerBusy"]
       ELSE /\ pc' = [pc EXCEPT ![c] = "mkdir"]
            /\ UNCHANGED err
  /\ UNCHANGED <<eccodesAvailable, clock, tempFiles, upload, viaBuffer, tempPath, msgs,
                 hoursLeft, timeSteps, child, decs, errMessage>>

\* calls arrive in the order of their numbers
NextToArrive(c) == pc[c] = "idle" /\ \A d \in Calls : d < c => pc[d] # "idle"

\* the call, to its first await: the capacity test, activeParses++, mkdir
Call(c) ==
  /\ UNCHANGED <<outsideParse, probes, checking>>
  /\ NextToArrive(c)
  /\ viaBuffer[c]
  /\ IF AtCapacity
       THEN /\ pc' = [pc EXCEPT ![c] = "thrown"]
            /\ err' = [err EXCEPT ![c] = "ServerBusy"]
            /\ UNCHANGED activeParses
       ELSE /\ activeParses' = activeParses + 1
            /\ pc' = [pc EXCEPT ![c] = "mkdir"]
            /\ UNCHANGED err
  /\ UNCHANGED <<eccodesAvailable, clock, tempFiles, upload, viaBuffer, tempPath, msgs,
                 hoursLeft, timeSteps, child, decs, errMessage>>

\* await mkdir(tempDir, {recursive: true}) settles, outside the try block:
\* a rejection leaves the function; else tempPath is built from Date.now(),
\* which never runs backwards, and writeFile starts
MkdirDone(c) ==
  /\ UNCHANGED <<outsideParse, probes, checking>>
  /\ pc[c] = "mkdir"
  /\ \/ /\ MayFail
        /\ pc' = [pc EXCEPT ![c] = "thrown"]
        /\ err' = [err EXCEPT ![c] = "MkdirFailed"]
        /\ UNCHANGED <<tempPath, clock>>
     \/ \E now \in clock .. MaxClock :
          /\ clock' = now
          /\ tempPath' = [tempPath EXCEPT ![c] = TempPathOf(now, FilenameOf(c))]
          /\ pc' = [pc EXCEPT ![c] = "write"]
          /\ UNCHANGED err
  /\ UNCHANGED <<activeParses, eccodesAvailable, tempFiles, upload, viaBuffer, msgs,
                 hoursLeft, timeSteps, child, decs, errMessage>>

\* writeFile(tempPath, ...) opens the file, creating or truncating it; or
\* the open fails, no file is created or truncated and the await rejects
StageOpen(c) ==
  /\ UNCHANGED <<outsideParse, checking>>
  /\ pc[c] = "write"
  /\ \/ /\ tempFiles' = [tempFiles EXCEPT ![tempPath[c]] = EmptyFile]
        /\ upload' = [upload EXCEPT ![c] = NoUpload]
        /\ Await(c, "writing")
        /\ UNCHANGED <<msgs, hoursLeft, timeSteps>>
     \/ /\ MayFail
        /\ Settle(c, "WriteFailed", <<>>)
        /\ UNCHANGED <<tempFiles, upload>>
  /\ UNCHANGED <<eccodesAvailable, probes, clock, viaBuffer, tempPath, child>>

\* writeFile writes the next part of the upload into the file it has opened:
\* the path no longer leads to that file if it has been unlinked
StageChunk(c) ==
  /\ UNCHANGED <<outsideParse, checking>>
  /\ pc[c] = "writing"
  /\ upload[c].sent < UploadChunks
  /\ upload' = [upload EXCEPT ![c].sent = @ + 1]
  /\ tempFiles' = IF upload[c].gone THEN tempFiles
                  ELSE [tempFiles EXCEPT ![tempPath[c]][upload[c].sent + 1] = c]
  /\ UNCHANGED <<activeParses, eccodesAvailable, probes, clock, pc, err,
                 errMessage, viaBuffer, tempPath, msgs, hoursLeft, timeSteps,
                 child, decs>>

\* await writeFile(tempPath, ...) settles: every part has been written and
\* the pipeline starts, or a write has failed
WriteDone(c) ==
  /\ UNCHANGED <<outsideParse, checking>>
  /\ pc[c] = "writing"
  /\ upload' = [upload EXCEPT ![c] = NoUpload]
  /\ \/ /\ upload[c].sent = UploadChunks
        /\ EnterPipeline(c)
     \/ /\ MayFail
        /\ Settle(c, "WriteFailed", <<>>)
        /\ UNCHANGED <<eccodesAvailable, probes>>
  /\ UNCHANGED <<clock, tempFiles, viaBuffer, tempPath, child>>

\* the calls that are writing into the file at path p
WritingAt(p) == {d \in Calls : pc[d] = "writing" /\ tempPath[d] = p}

\* unlink(p): the path leads to no file; a call that has the file open
\* writes into the unlinked file from now on
Unlinked(p) ==
  /\ tempFiles' = [tempFiles EXCEPT ![p] = NoFile]
  /\ upload' = [d \in Calls |-> IF d \in WritingAt(p)
                                 THEN [upload[d] EXCEPT !.gone = TRUE]
                                 ELSE upload[d]]

\* mutant: the temp file is deleted on the success path only
UnlinkOnSuccessOnly(c) ==
  /\ UNCHANGED <<outsideParse, probes, checking>>
  /\ pc[c] = "unlink"
  /\ IF err[c] = "ok" THEN Unlinked(tempPath[c])
     ELSE UNCHANGED <<tempFiles, upload>>
  /\ tempPath' = [tempPath EXCEPT ![c] = NoPath]
  /\ pc' = [pc EXCEPT ![c] = IF err[c] = "ok" THEN "returned" ELSE "thrown"]
  /\ UNCHANGED <<activeParses, eccodesAvailable, clock, viaBuffer, err,
                 msgs, hoursLeft, timeSteps, child, decs, errMessage>>

\* await unlink(tempPath) settles: the file is gone, or the unlink has
\* failed and the file stays as it is; a rejection (the file being already
\* absent, or the unlink failing) is ignored, and the call returns its result
\* or throws
UnlinkDone(c) ==
  /\ UNCHANGED <<outsideParse, probes, checking>>
  /\ pc[c] = "unlink"
  /\ \/ Unlinked(tempPath[c])
     \/ /\ MayFail
        /\ tempFiles[tempPath[c]] # NoFile
        /\ upload' = [upload EXCEPT ![c].kept = TRUE]
        /\ UNCHANGED tempFiles
  /\ tempPath' = [tempPath EXCEPT ![c] = NoPath]
  /\ pc' = [pc EXCEPT ![c] = IF err[c] = "ok" THEN "returned" ELSE "thrown"]
  /\ UNCHANGED <<activeParses, eccodesAvailable, clock, viaBuffer, err,
                 msgs, hoursLeft, timeSteps, child, decs, errMessage>>

\* checkEccodes() called on its own, by a route before it parses or lists
\* (checkWgrib2 is the same function): once the answer is cached it is
\* returned and nothing changes; else the probe is spawned, or Bun.spawn
\* throws and the answer is false
CheckEccodes ==
  /\ eccodesAvailable = "null"
  /\ MayFail
  /\ \/ /\ probes' = probes + 1
        /\ checking' = checking + 1
        /\ UNCHANGED eccodesAvailable
     \/ /\ eccodesAvailable' = "false"
        /\ UNCHANGED <<probes, checking>>
  /\ UNCHANGED <<activeParses, clock, tempFiles, upload, pc, err, errMessage,
                 viaBuffer, tempPath, msgs, hoursLeft, timeSteps, child, decs>>
  /\ UNCHANGED outsideParse

\* await proc.exited of such a probe: eccodesAvailable = true
CheckExit ==
  /\ checking > 0
  /\ checking' = checking - 1
  /\ eccodesAvailable' = "true"
  /\ UNCHANGED <<activeParses, clock, tempFiles, upload, pc, err, errMessage,
                 viaBuffer, tempPath, msgs, hoursLeft, timeSteps, child, decs,
                 probes>>
  /\ UNCHANGED outsideParse

\* the state of the module once loaded
InitParse ==
  /\ activeParses = 0
  /\ eccodesAvailable = "null"
  /\ clock = 0
  /\ tempFiles = [p \in TempPaths |-> NoFile]
  /\ upload = [c \in Calls |-> NoUpload]
  /\ checking = 0
  /\ pc = [c \in Calls |-> "idle"]
  /\ err = [c \in Calls |-> "none"]
  /\ errMessage = [c \in Calls |-> <<>>]
  /\ probes = 0
  /\ tempPath = [c \in Calls |-> NoPath]
  /\ msgs = [c \in Calls |-> <<>>]
  /\ hoursLeft = [c \in Calls |-> <<>>]
  /\ timeSteps = [c \in Calls |-> <<>>]
  /\ child = [c \in Calls |-> NoChildren]
  /\ decs = [c \in Calls |-> 0]

\* no parseTimeStep under way
GridIdle ==
  /\ gMsg = <<>>
  /\ gOutput = <<>>
  /\ gPc = "idle"
  /\ gData = <<>>
  /\ gResult = <<>>

\* no parseAndCacheGrib under way
CacheIdle ==
  /\ disk = <<>>
  /\ grib = <<>>
  /\ cache = <<>>

\* no function applied on its own
CalcIdle == calc = <<>>

Init ==
  /\ InitParse
  /\ viaBuffer = [c \in Calls |-> TRUE]
  /\ file = <<>>
  /\ GridIdle
  /\ CacheIdle
  /\ CalcIdle

Next ==
  \/ \E c \in Calls : Call(c)
  \/ \E c \in Calls : MkdirDone(c)
  \/ \E c \in Calls : StageOpen(c)
  \/ \E c \in Calls : StageChunk(c)
  \/ \E c \in Calls : WriteDone(c)
  \/ CheckEccodes
  \/ CheckExit
  \/ \E c \in Calls : ProbeExit(c)
  \/ \E c \in Calls : MetaExit(c, UploadListings)
  \/ \E c \in Calls : \E k \in {"u", "v"} : ChildExit(c, k)
  \/ \E c \in Calls : UnlinkDone(c)

\* N+1 uploads parsed through parseGribBuffer
Spec == Init /\ [][Next]_vars

\* ------------------------------------------------------- governor claims

Issued == {c \in Calls : pc[c] # "idle"}

Rejected == {c \in Calls : pc[c] = "thrown" /\ err[c] = "ServerBusy"}

Admitted == Issued \ Rejected

\* admitted calls that have left parseGribBuffer or released their slot
Left == {c \in Admitted : pc[c] \in {"unlink", "returned", "thrown"}}

Min(a, b) == IF a <= b THEN a ELSE b

\* C1 (as claimed): every admitted call that has returned or thrown has
\* decremented activeParses exactly once, and once every call has finished
\* activeParses is 0 again
C1_NoSlotLeak ==
  /\ \A c \in Calls : (Finished(c) /\ c \in Admitted) => decs[c] = 1
  /\ (\A c \in Calls : Finished(c)) => activeParses = 0

\* C2: activeParses stays within 0..N; while no admitted call has finished,
\* exactly min(issued, N) calls are admitted and in progress and the others
\* are rejected with ServerBusy, so N+1 simultaneous calls give N admitted
\* calls and one rejection
C2_GovernorBound ==
  /\ activeParses \in 0 .. MAX_CONCURRENT_PARSES
  /\ Left = {} =>
       /\ Cardinality(Admitted) = Min(Cardinality(Issued), MAX_CONCURRENT_PARSES)
       /\ activeParses = Cardinality(Admitted)
       /\ Cardinality(Issued) > MAX_CONCURRENT_PARSES => Rejected # {}

C2_Witness ==
  /\ Issued = Calls
  /\ Left = {}
  /\ Cardinality(Admitted) = MAX_CONCURRENT_PARSES
  /\ Cardinality(Rejected) = 1

\* C3: the step that takes a call in is its whole admission: with the counter
\* at N the call throws ServerBusy in that step and changes neither the
\* counter, nor a temp file, nor the set of decoder processes; with the
\* counter below N the call is admitted and the counter grows by one
C3_RejectOrAdmit ==
  [][\A c \in Calls :
       (pc[c] = "idle" /\ pc'[c] # "idle") =>
          IF activeParses >= MAX_CONCURRENT_PARSES
            THEN /\ pc'[c] = "thrown"
                 /\ err'[c] = "ServerBusy"
                 /\ activeParses' = activeParses
                 /\ tempFiles' = tempFiles
                 /\ tempPath' = tempPath
                 /\ RunningProcs' = RunningProcs
            ELSE /\ pc'[c] = "mkdir"
                 /\ activeParses' = activeParses + 1]_vars

C3_Witness ==
  /\ activeParses = MAX_CONCURRENT_PARSES
  /\ Rejected # {}
  /\ \E d \in Admitted : pc[d] = "hour"

\* the temp files that hold a part call c has written
StagedBy(c) ==
  {p \in TempPaths : \E i \in 1 .. Len(tempFiles[p]) : tempFiles[p][i] = c}

\* C4 (as claimed): no file staged by a call that has returned or thrown
\* exists
C4_TempFileDeleted ==
  \A c \in Calls : Finished(c) => StagedBy(c) = {}

\* C4 (amended): no file staged by a call that has returned or thrown
\* exists, unless the unlink of that call has failed; a call that was
\* rejected by the governor or whose mkdir failed has staged none
C4_DeletedUnlessUnlinkFails ==
  \A c \in Calls :
    Finished(c) =>
      /\ ~upload[c].kept => StagedBy(c) = {}
      /\ err[c] \in {"ServerBusy", "MkdirFailed"} =>
           ~upload[c].kept /\ StagedBy(c) = {}

\* one call has returned its series and its file is gone, another has
\* returned while its unlink failed and its file is still there, a third
\* was rejected by the governor
C4_Witness ==
  /\ \E c \in Calls :
       pc[c] = "returned" /\ err[c] = "ok" /\ ~upload[c].kept
  /\ \E c \in Calls :
       pc[c] = "returned" /\ err[c] = "ok" /\ upload[c].kept
         /\ StagedBy(c) # {}
  /\ \E c \in Calls : pc[c] = "thrown" /\ err[c] = "ServerBusy"

\* the calls checkEccodes has answered with false, and with true
ToldUnavailable == {c \in Calls : err[c] = "DecoderUnavailable"}

ToldAvailable ==
  {c \in Calls :
     \/ pc[c] \in {"meta", "hour"}
     \/ err[c] \in {"ok", "NoMessages", "ComponentNotFound", "EmptySeries",
                    "DecodeFailure"}}

\* C18: over any interleaving of the calls the version probe is spawned at
\* most once, all calls get the same answer from checkEccodes, and while the
\* answer is "unavailable" no parse is past the availability test
C18_ProbedOnce ==
  /\ probes <= 1
  /\ ToldUnavailable = {} \/ ToldAvailable = {}
  /\ eccodesAvailable = "false" => \A c \in Calls : pc[c] \notin {"meta", "hour"}

\* ------------------------- parseGribToMultiTimeVelocityJson called directly

\* bound: the number of messages of a file
MaxMsgs == 4

\* the messages a file is made of: the 10 m wind at two forecast hours (one
\* hour given as a range), the wind at a pressure level, the wind at the
\* surface level, and a variable that is no wind
SeriesMessages ==
  { U10(<<0>>), V10(<<0>>), U10(<<0, 6>>), V10(<<6>>),
    RawMsg("u", "isobaricInhPa", 850, <<0>>),
    RawMsg("v", "isobaricInhPa", 850, <<0>>),
    RawMsg("v", "surface", 0, <<6>>),
    RawMsg("2t", "heightAboveGround", 2, <<0>>) }

RECURSIVE SeqsUpTo(_, _)
SeqsUpTo(S, n) ==
  IF n = 0 THEN {<<>>}
  ELSE LET shorter == SeqsUpTo(S, n - 1)
       IN shorter \cup {Append(q, x) : q \in {r \in shorter : Len(r) = n - 1}, x \in S}

SeriesListings == SeqsUpTo(SeriesMessages, MaxMsgs)

\* the call of parseGribToMultiTimeVelocityJson(gribPath), to its first await
ParseCall(c) ==
  /\ pc[c] = "idle"
  /\ ~viaBuffer[c]
  /\ EnterPipeline(c)
  /\ UNCHANGED <<clock, tempFiles, upload, viaBuffer, tempPath, child>>
  /\ UNCHANGED <<outsideParse, checking>>

InitSeries ==
  /\ InitParse
  /\ viaBuffer = [c \in Calls |-> FALSE]
  /\ file \in SeriesListings
  /\ GridIdle
  /\ CacheIdle
  /\ CalcIdle

NextSeries ==
  \/ ParseCall(1)
  \/ ProbeExit(1)
  \/ MetaExit(1, {file})
  \/ \E k \in {"u", "v"} : ChildExit(1, k)

\* one parse of one file
SpecSeries == InitSeries /\ [][NextSeries]_vars

\* ---------------------------------------------------------- series claims

HasEastward(raw) == \E i \in 1 .. Len(raw) : raw[i].shortName \in {"10u", "u"}

HasNorthward(raw) == \E i \in 1 .. Len(raw) : raw[i].shortName \in {"10v", "v"}

\* the file holds the eastward component and no northward message
OnlyEastward == HasEastward(file) /\ ~HasNorthward(file)

\* the errors of the decoder itself, which the content of the file does not decide
DecoderErrors == {"DecoderUnavailable", "SpawnFailed", "DecodeFailure"}

\* C8 (as claimed): with a working decoder, the parse of a file that holds
\* only the eastward component fails with EmptySeries
C8_EmptySeriesClaimed ==
  (OnlyEastward /\ Finished(1) /\ err[1] \notin DecoderErrors)
     => (pc[1] = "thrown" /\ err[1] = "EmptySeries")

\* C8 (amended): with a working decoder, the parse of a file that holds only
\* the eastward component fails with ComponentNotFound, returns no time step,
\* and never starts a point dump
C8_ComponentNotFound ==
  OnlyEastward =>
    /\ (Finished(1) /\ err[1] \notin DecoderErrors)
          => (pc[1] = "thrown" /\ err[1] = "ComponentNotFound" /\ timeSteps[1] = <<>>)
    /\ pc[1] # "hour"
    /\ child[1] = NoChildren

C8_Witness ==
  /\ OnlyEastward
  /\ Len(file) > 1
  /\ pc[1] = "thrown"
  /\ err[1] = "ComponentNotFound"

\* the candidates of the two components in the file
EastwardCandidates == UMessages(getGribMetadata(file))

NorthwardCandidates == VMessages(getGribMetadata(file))

\* candidates exist for both components
BothComponents ==
  /\ Len(file) > 0
  /\ ~ComponentNotFound(getGribMetadata(file))

\* the forecast hours that have an eastward and a northward candidate
PairedHours ==
  {h \in {EastwardCandidates[i].stepRange : i \in 1 .. Len(EastwardCandidates)} :
     \E j \in 1 .. Len(NorthwardCandidates) : NorthwardCandidates[j].stepRange = h}

\* the forecast hours of the time steps the parse holds
StepHours == [i \in 1 .. Len(timeSteps[1]) |-> timeSteps[1][i].forecastHour]

\* C12: a parse that returns returns at least one time step; with a working
\* decoder, a file that has candidates for both components and no forecast
\* hour with both fails with EmptySeries
C12_NeverEmpty ==
  /\ pc[1] = "returned" => Len(timeSteps[1]) >= 1
  /\ (BothComponents /\ PairedHours = {} /\ Finished(1)
        /\ err[1] \notin DecoderErrors)
       => (pc[1] = "thrown" /\ err[1] = "EmptySeries" /\ timeSteps[1] = <<>>)

\* both components at different hours only: EmptySeries
C12_Witness ==
  /\ BothComponents
  /\ Len(EastwardCandidates) = 2
  /\ PairedHours = {}
  /\ pc[1] = "thrown"
  /\ err[1] = "EmptySeries"

\* C13: the forecast hours of consecutive time steps of a returned series
\* are strictly increasing
C13_HoursIncrease ==
  pc[1] = "returned" =>
    \A i \in 1 .. (Len(StepHours) - 1) : StepHours[i] < StepHours[i + 1]

\* the later hour comes first in the file, and two steps are returned
C13_Witness ==
  /\ pc[1] = "returned"
  /\ Len(timeSteps[1]) = 2
  /\ Len(file) = 4
  /\ parseStepRange(file[1].stepRange) = 6
  /\ parseStepRange(file[4].stepRange) = 0

\* C14: with a working decoder, the parse of a file in which some hour has
\* both components returns, and the hours of its time steps are exactly the
\* hours that have both, one step each
C14_ExactlyPairedHours ==
  /\ pc[1] = "returned" =>
       /\ {StepHours[i] : i \in 1 .. Len(StepHours)} = PairedHours
       /\ Len(StepHours) = Cardinality(PairedHours)
  /\ (BothComponents /\ PairedHours # {} /\ Finished(1)
        /\ err[1] \notin DecoderErrors)
       => pc[1] = "returned"

\* the first hour lacks the northward component and is skipped; the second
\* hour is returned
C14_Witness ==
  /\ pc[1] = "returned"
  /\ PairedHours = {6}
  /\ \E i \in 1 .. Len(EastwardCandidates) : EastwardCandidates[i].stepRange = 0
  /\ StepHours = <<6>>

\* the short names of the messages of the file
FileNames == {file[i].shortName : i \in 1 .. Len(file)}

\* C17 (as claimed): with a working decoder, the parse of a message list
\* without a candidate for the eastward or for the northward component fails
\* with ComponentNotFound, whose message lists every short name of the file
\* exactly once; such a parse never starts a point dump
C17_NotFoundForAnyList ==
  ~BothComponents =>
    /\ (Finished(1) /\ err[1] \notin DecoderErrors) =>
          /\ pc[1] = "thrown" /\ err[1] = "ComponentNotFound"
          /\ {errMessage[1][i] : i \in 1 .. Len(errMessage[1])} = FileNames
          /\ Len(errMessage[1]) = Cardinality(FileNames)
    /\ pc[1] # "hour"
    /\ child[1] = NoChildren

\* C17 (amended): with a working decoder, the parse of a non-empty message
\* list without a candidate for the eastward or for the northward component
\* fails with ComponentNotFound, whose message lists every short name of the
\* file exactly once; the parse of an empty message list fails with
\* NoMessages, which names no variable; neither parse ever starts a point
\* dump
C17_NotFoundListsNames ==
  ~BothComponents =>
    /\ (Len(file) > 0 /\ Finished(1) /\ err[1] \notin DecoderErrors) =>
          /\ pc[1] = "thrown" /\ err[1] = "ComponentNotFound"
          /\ {errMessage[1][i] : i \in 1 .. Len(errMessage[1])} = FileNames
          /\ Len(errMessage[1]) = Cardinality(FileNames)
    /\ (Len(file) = 0 /\ Finished(1) /\ err[1] \notin DecoderErrors) =>
          /\ pc[1] = "thrown" /\ err[1] = "NoMessages"
          /\ errMessage[1] = <<>>
    /\ pc[1] # "hour"
    /\ child[1] = NoChildren

\* a file with a repeated variable and no northward component
C17_Witness ==
  /\ pc[1] = "thrown"
  /\ err[1] = "ComponentNotFound"
  /\ Len(file) = 4
  /\ file[1].shortName = "2t" /\ file[3].shortName = "2t"
  /\ errMessage[1] = <<"2t", "u">>

\* the numbers of the messages of the file that are priority candidates of
\* a component at a forecast hour: 10u / 10v, or u / v at 10 m above ground
\* or at a surface level
PriorityU(h) ==
  {i \in 1 .. Len(file) :
     /\ parseStepRange(file[i].stepRange) = h
     /\ \/ file[i].shortName = "10u"
        \/ /\ file[i].shortName = "u"
           /\ \/ file[i].typeOfLevel = "surface"
              \/ file[i].typeOfLevel = "heightAboveGround" /\ file[i].level = 10}

PriorityV(h) ==
  {i \in 1 .. Len(file) :
     /\ parseStepRange(file[i].stepRange) = h
     /\ \/ file[i].shortName = "10v"
        \/ /\ file[i].shortName = "v"
           /\ \/ file[i].typeOfLevel = "surface"
              \/ file[i].typeOfLevel = "heightAboveGround" /\ file[i].level = 10}

FileHours == {parseStepRange(file[i].stepRange) : i \in 1 .. Len(file)}

\* some component has no priority candidate in the whole file
SomeComponentWithoutPriority ==
  \/ \A h \in FileHours : PriorityU(h) = {}
  \/ \A h \in FileHours : PriorityV(h) = {}

\* C24: in every time step of a returned series, a component that has a
\* priority candidate at the hour is paired with one (the first of the file);
\* a message that matches by its generic short name only is paired only when
\* some component has no priority candidate in the file
C24_PriorityOrder ==
  pc[1] = "returned" =>
    \A n \in 1 .. Len(timeSteps[1]) :
      LET step == timeSteps[1][n]
          h == step.forecastHour
      IN /\ PriorityU(h) # {} => step.u = SetMin(PriorityU(h))
         /\ PriorityV(h) # {} => step.v = SetMin(PriorityV(h))
         /\ (step.u \notin PriorityU(h) \/ step.v \notin PriorityV(h))
               => SomeComponentWithoutPriority

\* the pressure-level u comes first in the file, the 10 m u second, and there
\* is no priority v: the 10 m u is paired with the pressure-level v
C24_Witness ==
  /\ pc[1] = "returned"
  /\ Len(file) = 3
  /\ file[1].shortName = "u" /\ file[1].typeOfLevel = "isobaricInhPa"
  /\ file[2].shortName = "10u"
  /\ file[3].shortName = "v" /\ file[3].typeOfLevel = "isobaricInhPa"
  /\ Len(timeSteps[1]) = 1
  /\ timeSteps[1][1].u = 2
  /\ timeSteps[1][1].v = 3

\* the call starts the point dumps of a forecast hour in this step
StartsHour(c) ==
  /\ pc'[c] = "hour"
  /\ pc[c] # "hour" \/ hoursLeft'[c] # hoursLeft[c]

\* C26: the two point dumps of a forecast hour are started together; a
\* later hour is started only in the step in which the second dump of the
\* hour before completes, in ascending order of the hours, so that a parse
\* never has more than two point dumps outstanding
C26_HoursInTurn ==
  [][\A c \in Calls :
       StartsHour(c) =>
         /\ child'[c] = [u |-> "running", v |-> "running"]
         /\ ~(child[c].u = "running" /\ child[c].v = "running")
         /\ pc[c] = "hour" =>
              /\ \E k \in {"u", "v"} : child[c][k] = "ok"
              /\ Head(hoursLeft[c]) < Head(hoursLeft'[c])
              /\ Len(timeSteps'[c]) = Len(timeSteps[c]) + 1]_vars

\* the dumps of hour 6 are running after the step of hour 0 has been built
C26_Witness ==
  /\ pc[1] = "hour"
  /\ child[1] = [u |-> "running", v |-> "running"]
  /\ Len(timeSteps[1]) = 1
  /\ timeSteps[1][1].forecastHour = 0
  /\ Head(hoursLeft[1]) = 6

\* the parse leaves the loop in this step without the time step of the
\* hour whose dumps it was awaiting: a point dump has failed
DumpFails ==
  /\ pc[1] = "hour"
  /\ pc'[1] # "hour"
  /\ Len(timeSteps'[1]) # Len(timeSteps[1]) + 1

\* the parse leaves the listing in this step without starting an hour
LeavesListing == pc[1] = "meta" /\ pc'[1] \notin {"meta", "hour"}

\* C28: a parse whose listing or whose point dump of a forecast hour fails
\* throws that decoder error and holds no time step; a thrown parse starts
\* no decoder again; and a series that is returned has the step of every
\* hour that has both components, never the hours built so far only
C28_AllOrNothing ==
  [][/\ err'[1] \in DecoderErrors => (pc'[1] = "thrown" /\ timeSteps'[1] = <<>>)
     /\ pc'[1] = "returned" =>
          {timeSteps'[1][i].forecastHour : i \in 1 .. Len(timeSteps'[1])}
             = PairedHours
     /\ DumpFails =>
          /\ pc'[1] = "thrown"
          /\ err'[1] \in {"DecodeFailure", "SpawnFailed"}
          /\ timeSteps'[1] = <<>>
     /\ LeavesListing => (pc'[1] = "thrown" /\ timeSteps'[1] = <<>>)
     /\ pc[1] = "thrown" =>
          /\ pc'[1] = "thrown"
          /\ err'[1] = err[1]
          /\ \A k \in {"u", "v"} :
               child'[1][k] = "running" => child[1][k] = "running"]_vars

\* a file of two paired hours whose parse has thrown DecodeFailure while
\* the dump of the other component was running
C28_Witness ==
  /\ PairedHours = {0, 6}
  /\ pc[1] = "thrown"
  /\ err[1] = "DecodeFailure"
  /\ timeSteps[1] = <<>>
  /\ child[1].v = "running"

\* ------------------------------------------------- parseTimeStep on one pair

\* bound: the declared grid dimensions are 0..MaxN
MaxN == 2

\* bound: the number of lines of a point dump
MaxLines == 3

\* the lines of a dump: three corners of a 2 x 2 grid (NW, NE, SW), a
\* point given in the 0-360 convention whose value, 2^24 + 1, is no 32-bit
\* float, a line whose value is no number, and the header line
DumpLines ==
  { <<Num(1), Num(0), Num(1)>>,
    <<Num(1), Num(1), Num(2)>>,
    <<Num(0), Num(0), Num(3)>>,
    <<Num(0), Num(359), Num(16777217)>>,
    <<Num(2), Num(2), Word>>,
    <<LatitudeWord, Word, Word>> }

Dumps == SeqsUpTo(DumpLines, MaxLines)

\* first and last grid point of a message: <<lat1, lon1, lat2, lon2>>
Corners ==
  { <<2, 0, 0, 359>>, <<0, 180, 2, 181>>, <<0, -180, 2, 179>>, <<1, 360, 1, 10>> }

GridMessage(nx, ny, corner) ==
  [Ni |-> nx, Nj |-> ny,
   latitudeOfFirstGridPoint |-> corner[1],
   longitudeOfFirstGridPoint |-> corner[2],
   latitudeOfLastGridPoint |-> corner[3],
   longitudeOfLastGridPoint |-> corner[4],
   iDirectionIncrement |-> 1, jDirectionIncrement |-> 1,
   stepRange |-> 6]

\* the dump of the northward message: the same points, other values
NorthwardOutput(lines) ==
  [n \in 1 .. Len(lines) |->
     IF Len(lines[n]) >= 3 /\ lines[n][3].kind = "num"
       THEN [lines[n] EXCEPT ![3] = Num(@.v + 10)]
       ELSE lines[n]]

\* both point dumps have been read: Promise.all resolves with the two grids
ExtractBoth ==
  /\ gPc = "dumps"
  /\ gData' = <<ExtractMessageData(gOutput, gMsg.Ni, gMsg.Nj),
                ExtractMessageData(NorthwardOutput(gOutput), gMsg.Ni, gMsg.Nj)>>
  /\ gPc' = "extracted"
  /\ UNCHANGED <<gMsg, gOutput, gResult>>
  /\ UNCHANGED outsideGrid

\* the headers and the components are built and returned
BuildComponents ==
  /\ gPc = "extracted"
  /\ gResult' = parseTimeStep(gMsg, gData[1], gData[2])
  /\ gPc' = "done"
  /\ UNCHANGED <<gMsg, gOutput, gData>>
  /\ UNCHANGED outsideGrid

InitGrid ==
  /\ InitParse
  /\ viaBuffer = [c \in Calls |-> FALSE]
  /\ file = <<>>
  /\ gMsg \in {GridMessage(nx, ny, corner) :
                 nx \in 0 .. MaxN, ny \in 0 .. MaxN, corner \in Corners}
  /\ gOutput \in Dumps
  /\ gPc = "dumps"
  /\ gData = <<>>
  /\ gResult = <<>>
  /\ CacheIdle
  /\ CalcIdle

NextGrid == ExtractBoth \/ BuildComponents

\* parseTimeStep on one pair of messages and their dumps
SpecGrid == InitGrid /\ [][NextGrid]_vars

\* ------------------------------------------------------------ grid claims

\* the cells that the points of a dump address
Addressed(lines, nx, ny) ==
  {CellOf(lines[n], Bounds(lines), nx, ny).j * nx
     + CellOf(lines[n], Bounds(lines), nx, ny).i + 1 :
       n \in {k \in 1 .. Len(lines) :
                IsPoint(lines[k]) /\ CellOf(lines[k], Bounds(lines), nx, ny).inside}}

ComponentShape(comp, lines) ==
  /\ Len(comp.data) = gMsg.Ni * gMsg.Nj
  /\ comp.header.numberPoints = gMsg.Ni * gMsg.Nj
  /\ \A n \in 1 .. Len(comp.data) :
       n \notin Addressed(lines, gMsg.Ni, gMsg.Nj) => comp.data[n] = 0

\* C9: both components parseTimeStep returns have data.length = nx * ny =
\* header.numberPoints, and every cell no point of the dump addresses is 0
C9_DenseGrid ==
  gPc = "done" =>
    /\ ComponentShape(gResult[1], gOutput)
    /\ ComponentShape(gResult[2], NorthwardOutput(gOutput))

\* a partial dump with a duplicated point on a grid with gaps, and a dump
\* whose points fall outside a one-column grid
C9_Witness ==
  /\ gPc = "done"
  /\ gMsg.Ni = 2 /\ gMsg.Nj = 2
  /\ Len(gOutput) = 3 /\ gOutput[1] = gOutput[3] /\ gOutput[1] # gOutput[2]
  /\ IsPoint(gOutput[1]) /\ IsPoint(gOutput[2])
  /\ \E n \in 1 .. 4 : gResult[1].data[n] = 0
  /\ \E n \in 1 .. 4 : gResult[1].data[n] # 0

\* the dump without the lines the claim calls skipped: the empty ones, the
\* header, those of fewer than three fields and those whose latitude,
\* longitude or value is no number
WithoutSkipped(lines) == SelectSeq(lines, IsPoint)

\* C21: a line that is empty, begins with "Latitude", has fewer than three
\* fields or a non-numeric latitude, longitude or value has no effect: the
\* grid equals the grid of the same dump with those lines removed
C21_SkippedLinesNoEffect ==
  gPc # "dumps" =>
    gData[1] = ExtractMessageData(WithoutSkipped(gOutput), gMsg.Ni, gMsg.Nj)

\* C22: no two points of a dump are written to the same cell, and every
\* cell holds 0 or the value of one point
C22_OneSamplePerCell ==
  calc.pc = "grid" =>
    /\ \A m, n \in 1 .. Len(calc.lines) :
         LET b == Bounds(calc.lines)
             cm == CellOf(calc.lines[m], b, calc.nx, calc.ny)
             cn == CellOf(calc.lines[n], b, calc.nx, calc.ny)
         IN (m # n /\ IsPoint(calc.lines[m]) /\ IsPoint(calc.lines[n])
               /\ cm.inside /\ cn.inside)
              => <<cm.i, cm.j>> # <<cn.i, cn.j>>
    /\ \A k \in 1 .. Len(calc.grid) :
         \/ calc.grid[k] = 0
         \/ \E n \in 1 .. Len(calc.lines) : calc.grid[k] = calc.lines[n][3].v

\* C23: the cell deltas dLat and dLon are never zero, whatever the dump and
\* the declared dimensions
C23_DeltasNeverZero ==
  LET b == Bounds(gOutput)
  IN (gPc # "dumps" /\ ~b.empty) =>
       /\ Delta(b.maxLat - b.minLat, gMsg.Nj).num # 0
       /\ Delta(b.maxLon - b.minLon, gMsg.Ni).num # 0

\* ------------------------------------------- single-pair parse (older parser)

\* formatGribTime: dataDate is yyyymmdd, dataTime is hhmm padded to 4 digits;
\* the ISO string is modelled by its fields
formatGribTime(dataDate, dataTime) ==
  <<dataDate \div 10000, (dataDate \div 100) % 100, dataDate % 100,
    dataTime \div 100, dataTime % 100>>

\* getGribMetadata of the single-pair parser: no stepRange
getGribMetadataSingle(raw) ==
  [i \in 1 .. Len(raw) |-> raw[i] @@ [messageNumber |-> i]]

\* messages.find(pred): the index of the first match, 0 for undefined
RECURSIVE FindFrom(_, _, _, _)
FindFrom(ms, names, tenMetre, i) ==
  IF i > Len(ms) THEN 0
  ELSE IF /\ ms[i].shortName \in names
          /\ (tenMetre =>
                ms[i].typeOfLevel = "heightAboveGround" /\ ms[i].level = 10)
         THEN i
         ELSE FindFrom(ms, names, tenMetre, i + 1)

\* the choice of uMsg and vMsg. When a 10 m message is missing and both
\* alternatives exist, Object.assign(uMessage ?? {}, uAlt) copies the
\* alternative into a fresh object (or over the message that was found) and
\* the missing one stays undefined: reading uMsg.Ni throws a TypeError, or,
\* when only vMessage is missing, reading vMsg.messageNumber does, after the
\* first extractMessageData has spawned its process
SelectPair(ms) ==
  LET uMessage == FindFrom(ms, {"10u", "u"}, TRUE, 1)
      vMessage == FindFrom(ms, {"10v", "v"}, TRUE, 1)
      uAlt == FindFrom(ms, {"10u", "u"}, FALSE, 1)
      vAlt == FindFrom(ms, {"10v", "v"}, FALSE, 1)
  IN IF uMessage # 0 /\ vMessage # 0
       THEN [error |-> "none", u |-> uMessage, v |-> vMessage, spawned |-> 2]
     ELSE IF uAlt = 0 \/ vAlt = 0
       THEN [error |-> "ComponentNotFound", u |-> 0, v |-> 0, spawned |-> 0]
     ELSE [error |-> "TypeError", u |-> 0, v |-> 0,
           spawned |-> IF uMessage # 0 THEN 1 ELSE 0]

\* the loop over the points of the single-pair parser: grid[j][i] = value,
\* the rows being arrays of numbers; grid.flat() puts row j at j * nx
RECURSIVE PopulateSingle(_, _, _, _, _)
PopulateSingle(points, grid, b, nx, ny) ==
  IF points = <<>> THEN grid
  ELSE LET point == Head(points)
           cell == CellOf(point, b, nx, ny)
           next == IF cell.inside
                     THEN [grid EXCEPT ![cell.j * nx + cell.i + 1] = point[3].v]
                     ELSE grid
       IN PopulateSingle(Tail(points), next, b, nx, ny)

\* extractMessageData of the single-pair parser: one pass collects the points
\* (latitude, longitude and value all numbers) and their bounds
extractMessageDataSingle(lines, nx, ny) ==
  LET points == SelectSeq(lines, IsPoint)
  IN PopulateSingle(points, [n \in 1 .. nx * ny |-> 0], Bounds(points), nx, ny)

\* buildHeader of the single-pair parser: forecastTime is 0
buildHeaderSingle(parameterNumber, nx, ny, la1, lo1, la2, lo2, dx, dy, refTime) ==
  [parameterNumber |-> parameterNumber,
   refTime |-> refTime,
   forecastTime |-> 0,
   numberPoints |-> nx * ny,
   nx |-> nx, ny |-> ny,
   lo1 |-> lo1, la1 |-> la1, lo2 |-> lo2, la2 |-> la2,
   dx |-> dx, dy |-> dy]

\* parseGribToVelocityJson once both dumps are in; refTime is <<>> when the
\* caller passes undefined
parseGribToVelocityJson(uMsg, uData, vData, refTime) ==
  LET nx == uMsg.Ni
      ny == uMsg.Nj
      lon1 == NormalizeLon(uMsg.longitudeOfFirstGridPoint)
      lon2 == NormalizeLon(uMsg.longitudeOfLastGridPoint)
      la1 == Max2(uMsg.latitudeOfFirstGridPoint, uMsg.latitudeOfLastGridPoint)
      la2 == Min2(uMsg.latitudeOfFirstGridPoint, uMsg.latitudeOfLastGridPoint)
      timeStr == IF refTime # <<>> THEN refTime
                 ELSE formatGribTime(uMsg.dataDate, uMsg.dataTime)
      hdr(n) == buildHeaderSingle(n, nx, ny, la1, Min2(lon1, lon2), la2,
                                  Max2(lon1, lon2), uMsg.iDirectionIncrement,
                                  uMsg.jDirectionIncrement, timeStr)
  IN <<[header |-> hdr(2), data |-> uData], [header |-> hdr(3), data |-> vData]>>

\* ------------------------------------------------------------ the cache file

\* what a path holds: nothing, a GRIB file (its listing and the point dump of
\* each message), or text
Absent == [kind |-> "absent", messages |-> <<>>, output |-> <<>>, chars |-> <<>>]

GribFile(messages, output) ==
  [kind |-> "grib", messages |-> messages, output |-> output, chars |-> <<>>]

TextFile(chars) ==
  [kind |-> "text", messages |-> <<>>, output |-> <<>>, chars |-> chars]

\* JSON.stringify(velocityData): the text of a two-element array, as tokens
Stringify(velocityData) ==
  <<"[", velocityData[1], ",", velocityData[2], "]">>

\* readFile(jsonPath, "utf-8"): the bytes of a GRIB file read as text
ReadText(content) ==
  IF content.kind = "text" THEN content.chars ELSE <<"GRIB">>

\* JSON.parse throws on an empty or a cut text, and on what is no JSON
Parses(chars) ==
  /\ Len(chars) = 5
  /\ chars[1] = "[" /\ chars[3] = "," /\ chars[5] = "]"

JSONparse(chars) == <<chars[2], chars[4]>>

\* the number of tokens of the text of a value
TextLen == 5

\* the number of tokens writeFile hands to one write
ChunkLen == 3

\* A text that is being written: since the file was last truncated, the
\* tokens at the positions W have been written, the others are missing (not
\* yet written, or a gap of zero bytes before a later write). All the calls
\* of a record write the same text.
CutText(W) == <<"cut", W>>

\* the positions of the text the file holds
Present(content) ==
  IF content.chars = <<>> THEN {}
  ELSE IF Len(content.chars) = 2 THEN content.chars[2]
  ELSE 1 .. TextLen

\* the file after the tokens from + 1 .. to of the text of velocityData have
\* been written at their offsets
WriteAt(content, velocityData, from, to) ==
  LET W == Present(content) \cup ((from + 1) .. to)
  IN IF W = 1 .. TextLen THEN Stringify(velocityData) ELSE CutText(W)

\* a path of the uploads directory: <<name, extension>>
\* grib.jsonPath || grib.filePath.replace(/\.grb2$/, ".json")
JsonPathOf(record) ==
  IF record.jsonPath # <<>> THEN record.jsonPath
  ELSE IF record.filePath[2] = ".grb2" THEN <<record.filePath[1], ".json">>
  ELSE record.filePath

\* --------------------------------------------------------- parseAndCacheGrib

\* bound: the number of requests for the same record
MaxCacheCalls == 2

\* the requests, numbered in the order they are made
CacheCalls == 1 .. MaxCacheCalls

\* the requests come from two clients, each of which waits for the response
\* before it asks again
Clients == {"viewer", "other"}

\* the requests that have been made and have not settled
UnderWay == {c \in CacheCalls : cache[c].pc \notin {"idle", "returned", "thrown"}}

\* saveUploadedGrib keeps one of these extensions
UploadExts == {".grb2", ".grib2", ".grb"}

CachePaths == {<<"upload_1", e>> : e \in UploadExts \cup {".json"}}

\* the places of the files that have been unlinked while a call had them
\* open: such a file is there until the last call that has it open closes
\* it, and no more of them are there at a time than there are calls
UnlinkedFiles == {<<"unlinked", c>> : c \in CacheCalls}

CacheMsg(sn, lvl) ==
  [shortName |-> sn, typeOfLevel |-> "heightAboveGround", level |-> lvl,
   Ni |-> 2, Nj |-> 1,
   latitudeOfFirstGridPoint |-> 0, longitudeOfFirstGridPoint |-> 359,
   latitudeOfLastGridPoint |-> 0, longitudeOfLastGridPoint |-> 0,
   iDirectionIncrement |-> 1, jDirectionIncrement |-> 1,
   dataDate |-> 20240315, dataTime |-> 600]

\* what grib_get_data prints for message n
PointDump(n) ==
  << <<LatitudeWord, Word, Word>>,
     <<Num(0), Num(359), Num(n)>>,
     <<Num(0), Num(0), Num(n + 2)>> >>

\* the uploaded files: both components at 10 m; the northward component at
\* another level only; both components at another level only; no northward
\* component
CacheSource ==
  GribFile(<<CacheMsg("10u", 10), CacheMsg("10v", 10)>>,
           <<PointDump(1), PointDump(2)>>)

CacheSources ==
  { CacheSource,
    GribFile(<<CacheMsg("10u", 10), CacheMsg("v", 2)>>,
             <<PointDump(1), PointDump(2)>>),
    GribFile(<<CacheMsg("u", 2), CacheMsg("v", 2)>>,
             <<PointDump(1), PointDump(2)>>),
    GribFile(<<CacheMsg("10u", 10)>>, <<PointDump(1)>>) }

\* bound: the number of deletions of the record that are under way at a
\* time (deleteGrib is called for every request to delete, and by
\* cleanupOldUploads; cleanupOldGribs deletes as well)
MaxDeletes == 2

\* the record saveUploadedGrib stores for an upload; with it, the deletions
\* of the record that are under way: toUnlink counts those that have read
\* the row and called unlink, toDelete those whose unlink has settled and
\* whose db.delete is to come
CacheRecord(ext, forecastTime) ==
  [filePath |-> <<"upload_1", ext>>, jsonPath |-> <<>>,
   forecastTime |-> forecastTime, stored |-> TRUE,
   toUnlink |-> 0, toDelete |-> 0]

\* the uploads, record and file: each of the files stored as .grb2, and the
\* first of them also stored as .grb; saveUploadedGrib stores no forecast
\* time
CacheUploads ==
  {<<CacheRecord(".grb2", <<>>), source>> : source \in CacheSources}
    \cup {<<CacheRecord(".grb", <<>>), CacheSource>>}

\* jsonPath, as getGribVelocityData computes it from the record
CachePath == JsonPathOf(grib)

\* a request that has not been made: path and unset are the jsonPath the
\* request computes and whether the record had none, found tells that stat
\* has found a file at the path, seen is what readFile has read there, src is
\* the uploaded file as it was when the running decoder processes were
\* spawned, fd is the file the call has open for reading or for writing (its
\* path, or the place of an unlinked file), fault that the call was failed
\* by a spawn, a decoder process or a write that could as well have succeeded
IdleCall ==
  [pc |-> "idle", path |-> <<>>, unset |-> FALSE, found |-> FALSE,
   how |-> "none", ran |-> 0, wrote |-> FALSE, err |-> "none", val |-> <<>>,
   ms |-> <<>>, left |-> {}, data |-> <<<<>>, <<>>>>, prior |-> {},
   sent |-> 0, seen |-> Absent, src |-> Absent, fd |-> <<>>,
   fault |-> FALSE]

\* the call rejects with error e
Thrown(call, e) ==
  [call EXCEPT !.pc = "thrown", !.err = e, !.val = <<>>, !.ms = <<>>,
               !.left = {}, !.data = <<<<>>, <<>>>>, !.seen = Absent,
               !.src = Absent, !.sent = 0, !.fd = <<>>, !.path = <<>>,
               !.unset = FALSE]

\* a step of the call that leaves the files and the record alone
Go(c, next) ==
  /\ cache' = [cache EXCEPT ![c] = next]
  /\ UNCHANGED <<disk, grib>>

\* the files once call c has closed the file it has open: an unlinked file
\* that no call has open any more is no more
Closed(c) ==
  LET fd == cache[c].fd
  IN IF fd \in UnlinkedFiles /\ \A d \in CacheCalls \ {c} : cache[d].fd # fd
       THEN [disk EXCEPT ![fd] = Absent]
       ELSE disk

\* mutant of Fail: a failed parse leaves an empty cache file behind
FailLeavesFile(c, call, e) ==
  /\ cache' = [cache EXCEPT ![c] = Thrown(call, e)]
  /\ disk' = [Closed(c) EXCEPT ![CachePath] = TextFile(<<>>)]
  /\ UNCHANGED grib

\* an await of parseAndCacheGrib throws: the call rejects, and
\* getGribVelocityData with it, before the record is updated; the file
\* writeFile had open is closed
Fail(c, call, e) ==
  /\ cache' = [cache EXCEPT ![c] = Thrown(call, e)]
  /\ disk' = Closed(c)
  /\ UNCHANGED grib

\* what a decoder process spawned now finds at the path of the upload
Source == IF disk[grib.filePath].kind = "grib" THEN disk[grib.filePath] ELSE Absent

\* the calls a spawn, a decoder process or a write has failed that could as
\* well have succeeded
Faults == Cardinality({d \in CacheCalls : cache[d].fault})

\* such a failure of call c
Fault(c, call, e) ==
  /\ Faults < MaxFaults
  /\ Fail(c, [call EXCEPT !.fault = TRUE], e)

\* parseAndCacheGrib returns value; getGribVelocityData stores jsonPath in
\* the record if the record it had read has none (an update of a record that
\* has been deleted changes nothing) and returns
Return(c, call, value) ==
  /\ cache' = [cache EXCEPT ![c] =
                 [call EXCEPT !.pc = "returned", !.val = value, !.ms = <<>>,
                              !.left = {}, !.data = <<<<>>, <<>>>>,
                              !.seen = Absent, !.src = Absent, !.sent = 0,
                              !.fd = <<>>, !.path = <<>>,
                              !.unset = FALSE]]
  /\ grib' = IF call.unset /\ grib.stored
               THEN [grib EXCEPT !.jsonPath = call.path] ELSE grib
  /\ disk' = Closed(c)

\* parseGribToVelocityJson is entered: checkEccodes spawns grib_ls -V, and
\* returns false when the spawn throws
StartPipeline(c, call) ==
  \/ Go(c, [call EXCEPT !.pc = "probe", !.ran = @ + 1])
  \/ Fault(c, call, "DecoderUnavailable")

\* the values earlier calls computed, cached and returned
Computed ==
  {cache[d].val : d \in {x \in CacheCalls :
                           cache[x].pc = "returned" /\ cache[x].wrote}}

\* the next request is made, by a client that is not waiting for a
\* response: getGribVelocityData reads the record (it returns null if there
\* is none, and nothing has changed) and calls parseAndCacheGrib(filePath,
\* jsonPath, refTime), which calls stat(jsonPath)
CacheCall(c) ==
  /\ cache[c].pc = "idle"
  /\ \A d \in 1 .. (c - 1) : cache[d].pc # "idle"
  /\ Cardinality(UnderWay) < Cardinality(Clients)
  /\ grib.stored
  /\ Go(c, [cache[c] EXCEPT !.pc = "stat", !.prior = Computed,
                            !.path = JsonPathOf(grib),
                            !.unset = (grib.jsonPath = <<>>)])
  /\ UNCHANGED outsideCache

\* stat looks the path up
StatFile(c) ==
  /\ cache[c].pc = "stat"
  /\ Go(c, [cache[c] EXCEPT !.pc = "statEnd",
                            !.found = (disk[cache[c].path].kind # "absent")])
  /\ UNCHANGED outsideCache

\* mutant of StatDone: a call that finds no file while another call is
\* computing waits for that call's file instead of computing
StatDoneJoin(c) ==
  /\ cache[c].pc = "statEnd"
  /\ IF cache[c].found
       THEN Go(c, [cache[c] EXCEPT !.pc = "read"])
     ELSE IF \E d \in CacheCalls \ {c} :
               cache[d].pc \in {"probe", "meta", "extract", "write", "writing"}
       THEN Go(c, [cache[c] EXCEPT !.pc = "read", !.how = "absent"])
     ELSE StartPipeline(c, [cache[c] EXCEPT !.how = "absent"])
  /\ UNCHANGED outsideCache

\* the await of stat settles: readFile is called if the file exists, else
\* the catch block is passed and the parse starts
StatDone(c) ==
  /\ cache[c].pc = "statEnd"
  /\ IF cache[c].found
       THEN Go(c, [cache[c] EXCEPT !.pc = "read"])
       ELSE StartPipeline(c, [cache[c] EXCEPT !.how = "absent"])
  /\ UNCHANGED outsideCache

\* readFile opens the file the path leads to at this moment; or there is
\* none and readFile rejects
ReadOpen(c) ==
  /\ cache[c].pc = "read"
  /\ IF disk[cache[c].path] = Absent
       THEN Go(c, [cache[c] EXCEPT !.pc = "readEnd", !.seen = Absent])
       ELSE Go(c, [cache[c] EXCEPT !.pc = "reading", !.fd = cache[c].path])
  /\ UNCHANGED outsideCache

\* readFile reads what the file it has opened holds at this moment, whether
\* the file has been unlinked since or not, and closes it
ReadFile(c) ==
  /\ cache[c].pc = "reading"
  /\ cache' = [cache EXCEPT ![c] = [@ EXCEPT !.pc = "readEnd",
                                              !.seen = disk[cache[c].fd],
                                              !.fd = <<>>]]
  /\ disk' = Closed(c)
  /\ UNCHANGED <<grib, outsideCache>>

\* mutant of ReadDone: a text that is cut is read as far as it goes
ReadDoneLenient(c) ==
  /\ cache[c].pc = "readEnd"
  /\ LET seen == cache[c].seen
         text == ReadText(seen)
         how == IF cache[c].how # "none" THEN cache[c].how
                ELSE IF seen.kind # "absent" /\ Parses(text) THEN "hit"
                ELSE "unreadable"
     IN IF seen.kind # "absent" /\ Parses(text)
          THEN Return(c, [cache[c] EXCEPT !.how = how], JSONparse(text))
        ELSE IF seen.kind = "text"
          THEN Return(c, [cache[c] EXCEPT !.how = how], <<Present(seen)>>)
          ELSE StartPipeline(c, [cache[c] EXCEPT !.how = how, !.seen = Absent])
  /\ UNCHANGED outsideCache

\* the await of readFile settles: JSON.parse of the text that was read is
\* returned; any throw (no file, no JSON) lands in the same catch block and
\* the parse starts
ReadDone(c) ==
  /\ cache[c].pc = "readEnd"
  /\ LET seen == cache[c].seen
         text == ReadText(seen)
         how == IF cache[c].how # "none" THEN cache[c].how
                ELSE IF seen.kind # "absent" /\ Parses(text) THEN "hit"
                ELSE "unreadable"
     IN IF seen.kind # "absent" /\ Parses(text)
          THEN Return(c, [cache[c] EXCEPT !.how = how], JSONparse(text))
          ELSE StartPipeline(c, [cache[c] EXCEPT !.how = how, !.seen = Absent])
  /\ UNCHANGED outsideCache

\* grib_ls -V has exited: getGribMetadata spawns grib_ls on the uploaded
\* file, or the spawn throws
ProbeDone(c) ==
  /\ cache[c].pc = "probe"
  /\ \/ Go(c, [cache[c] EXCEPT !.pc = "meta", !.ran = @ + 1,
                               !.src = Source])
     \/ Fault(c, cache[c], "SpawnFailed")
  /\ UNCHANGED outsideCache

\* grib_ls has exited: a non-zero exit code throws (it has not found a GRIB
\* file if the file was none when it started); else uMsg and vMsg are chosen
\* and extractMessageData is called for each of them, which spawns
\* grib_get_data. A spawn that throws rejects that call's promise: Promise.all
\* rejects with it, after the other call has spawned or thrown as well. When
\* vMsg is undefined the first call has been made before vMsg.messageNumber
\* throws.
MetaListed(c) ==
  /\ cache[c].pc = "meta"
  /\ LET source == cache[c].src
         ms == getGribMetadataSingle(source.messages)
         sel == SelectPair(ms)
     IN IF source.kind # "grib" THEN Fail(c, cache[c], "DecodeFailure")
        ELSE \/ Fault(c, cache[c], "DecodeFailure")
             \/ IF sel.error # "none"
                  THEN \/ Fail(c, [cache[c] EXCEPT !.ran = @ + sel.spawned],
                               sel.error)
                       \/ \E spawned \in 0 .. (sel.spawned - 1) :
                            Fault(c, [cache[c] EXCEPT !.ran = @ + spawned],
                                  sel.error)
                  ELSE \/ Go(c, [cache[c] EXCEPT !.pc = "extract",
                                                 !.ran = @ + sel.spawned,
                                                 !.ms = <<ms[sel.u], ms[sel.v]>>,
                                                 !.left = {1, 2},
                                                 !.src = Source])
                       \/ \E spawned \in 0 .. (sel.spawned - 1) :
                            Fault(c, [cache[c] EXCEPT !.ran = @ + spawned],
                                  "SpawnFailed")
  /\ UNCHANGED outsideCache

\* grib_get_data of component k has exited: a non-zero exit code rejects
\* Promise.all; the second result resolves it and writeFile is called
ExtractDone(c, k) ==
  /\ cache[c].pc = "extract"
  /\ k \in cache[c].left
  /\ LET call == cache[c]
         source == call.src
         uMsg == call.ms[1]
         grid == extractMessageDataSingle(source.output[call.ms[k].messageNumber],
                                          uMsg.Ni, uMsg.Nj)
         data == [call.data EXCEPT ![k] = grid]
     IN IF source.kind # "grib" THEN Fail(c, call, "DecodeFailure")
        ELSE \/ Fault(c, call, "DecodeFailure")
             \/ IF call.left = {k}
                  THEN Go(c, [call EXCEPT
                                !.pc = "write", !.left = {}, !.data = data,
                                !.src = Absent,
                                !.val = parseGribToVelocityJson(
                                          uMsg, data[1], data[2],
                                          grib.forecastTime)])
                  ELSE Go(c, [call EXCEPT !.left = @ \ {k}, !.data = data])
  /\ UNCHANGED outsideCache

\* writeFile opens jsonPath, creating or truncating it; or the open fails,
\* the file is neither created nor truncated and the call rejects
WriteOpen(c) ==
  /\ cache[c].pc = "write"
  /\ \/ /\ cache' = [cache EXCEPT ![c] = [@ EXCEPT !.pc = "writing",
                                                    !.wrote = TRUE, !.sent = 0,
                                                    !.fd = cache[c].path]]
        /\ disk' = [disk EXCEPT ![cache[c].path] = TextFile(<<>>)]
        /\ UNCHANGED grib
     \/ Fault(c, cache[c], "WriteFailed")
  /\ UNCHANGED outsideCache

\* writeFile writes the next part of the text, of ChunkLen tokens or what is
\* left of it, at its offset into the file it has opened, whether the path
\* still leads to that file or not
WriteChunk(c) ==
  /\ cache[c].pc = "writing"
  /\ cache[c].sent < TextLen
  /\ LET to == Min2(cache[c].sent + ChunkLen, TextLen) IN
       /\ cache' = [cache EXCEPT ![c] = [@ EXCEPT !.sent = to]]
       /\ disk' = [disk EXCEPT ![cache[c].fd] =
                          TextFile(WriteAt(@, cache[c].val, cache[c].sent, to))]
  /\ UNCHANGED <<grib, outsideCache>>

\* the await of writeFile settles: the whole text has been written and
\* velocityData is returned; or a write has failed and the call rejects
WriteClose(c) ==
  /\ cache[c].pc = "writing"
  /\ \/ /\ cache[c].sent = TextLen
        /\ Return(c, cache[c], cache[c].val)
     \/ Fault(c, cache[c], "WriteFailed")
  /\ UNCHANGED outsideCache

\* deleteGrib, and cleanupOldGribs and cleanupOldUploads for each record
\* they select: the row is read and unlink(row.filePath) is called. Any
\* number of such calls are made while the record is there, at most
\* MaxDeletes of them being under way at a time
DeleteGrib ==
  /\ grib.stored
  /\ grib.toUnlink + grib.toDelete < MaxDeletes
  /\ grib' = [grib EXCEPT !.toUnlink = @ + 1]
  /\ UNCHANGED <<disk, cache, outsideCache>>

\* the unlink of a deletion is performed, whether the record is still there
\* or not and whoever has created the file the path leads to now: the path
\* leads to no file any more, and the calls that have the file open go on
\* reading it and writing into it. Or the unlink fails and the file stays
UnlinkGrib ==
  /\ grib.toUnlink > 0
  /\ \/ LET path == grib.filePath
             open == {c \in CacheCalls : cache[c].fd = path}
             place == CHOOSE u \in UnlinkedFiles :
                        /\ disk[u] = Absent
                        /\ \A v \in UnlinkedFiles :
                             (disk[v] = Absent) => u[2] <= v[2]
         IN /\ disk' = IF open = {} THEN [disk EXCEPT ![path] = Absent]
                       ELSE [disk EXCEPT ![path] = Absent, ![place] = disk[path]]
            /\ grib' = [grib EXCEPT !.toUnlink = @ - 1, !.toDelete = @ + 1]
            /\ cache' = [c \in CacheCalls |->
                           IF c \in open THEN [cache[c] EXCEPT !.fd = place]
                           ELSE cache[c]]
     \/ /\ disk[grib.filePath] # Absent
        /\ grib' = [grib EXCEPT !.toUnlink = @ - 1, !.toDelete = @ + 1]
        /\ UNCHANGED <<disk, cache>>
  /\ UNCHANGED outsideCache

\* the await of an unlink settles (a rejection is ignored) and
\* db.delete(...) removes the record, if it is still there
DeleteRecord ==
  /\ grib.toDelete > 0
  /\ grib' = [grib EXCEPT !.stored = FALSE, !.toDelete = @ - 1]
  /\ UNCHANGED <<disk, cache, outsideCache>>

InitCache ==
  /\ InitParse
  /\ viaBuffer = [c \in Calls |-> FALSE]
  /\ file = <<>>
  /\ GridIdle
  /\ \E stored \in CacheUploads :
       /\ grib = stored[1]
       /\ disk = [p \in CachePaths \cup UnlinkedFiles |->
                    IF p = grib.filePath THEN stored[2] ELSE Absent]
  /\ cache = [c \in CacheCalls |-> IdleCall]
  /\ CalcIdle

NextCache ==
  \/ \E c \in CacheCalls :
       \/ CacheCall(c)
       \/ StatFile(c)
       \/ StatDone(c)
       \/ ReadOpen(c)
       \/ ReadFile(c)
       \/ ReadDone(c)
       \/ ProbeDone(c)
       \/ MetaListed(c)
       \/ \E k \in {1, 2} : ExtractDone(c, k)
       \/ WriteOpen(c)
       \/ WriteChunk(c)
       \/ WriteClose(c)
  \/ DeleteGrib
  \/ UnlinkGrib
  \/ DeleteRecord

\* requests for the velocity data of one uploaded record
SpecCache == InitCache /\ [][NextCache]_vars

\* ----------------------------------------------------------- cache claims

CacheSettled(c) == cache[c].pc \in {"returned", "thrown"}

\* C5 (as claimed): a call that finds a file at cachePath returns its
\* deserialized content, spawns no decoder and does not write the file; a
\* call made after a computation has been cached and returned returns a value
\* equal to it
C5_CachedAsIs ==
  \A c \in CacheCalls :
    /\ (cache[c].found /\ CacheSettled(c)) =>
          /\ cache[c].pc = "returned"
          /\ cache[c].ran = 0
          /\ ~cache[c].wrote
    /\ (cache[c].prior # {} /\ CacheSettled(c)) =>
          /\ cache[c].pc = "returned"
          /\ cache[c].val \in cache[c].prior

PipelineErrors ==
  {"DecoderUnavailable", "SpawnFailed", "DecodeFailure", "ComponentNotFound",
   "TypeError"}

\* the value a computation from the uploaded file gives
FullValue ==
  parseGribToVelocityJson(CacheMsg("10u", 10), <<1, 3>>, <<2, 4>>,
                          grib.forecastTime)

\* what holds of a call that has found no file at cachePath, whether the
\* writes succeed or not: if it returns it has run the whole pipeline (four
\* decoder processes), has written cachePath and returns the value it
\* computed; if its pipeline fails it throws without having opened cachePath
MissComputes ==
  \A c \in CacheCalls :
    cache[c].how = "absent" =>
      /\ cache[c].pc = "returned" =>
           /\ cache[c].ran = 4
           /\ cache[c].wrote
           /\ cache[c].val = parseGribToVelocityJson(
                               CacheMsg("10u", 10), <<1, 3>>, <<2, 4>>,
                               grib.forecastTime)
      /\ (cache[c].pc = "thrown" /\ cache[c].err \in PipelineErrors) =>
           ~cache[c].wrote

\* some call has found no file at cachePath and has returned, and no call
\* is writing
MissStored ==
  /\ \E c \in CacheCalls : cache[c].how = "absent" /\ cache[c].pc = "returned"
  /\ \A c \in CacheCalls : cache[c].pc # "writing"

\* C6 (as claimed): a call that finds no file at cachePath and returns has
\* run the whole pipeline, has written cachePath and returns the value it
\* computed, whose text is what the file holds once the writes are over; a
\* call that finds no file and throws has created none, and a file at
\* cachePath has been created by a call that has returned or is writing
C6_NoFileUnlessParsed ==
  /\ MissComputes
  /\ \A c \in CacheCalls :
       (cache[c].how = "absent" /\ cache[c].pc = "thrown") => ~cache[c].wrote
  /\ (CachePath # grib.filePath /\ disk[CachePath] # Absent) =>
       \E c \in CacheCalls :
         cache[c].wrote /\ cache[c].pc \in {"writing", "returned"}
  /\ MissStored => disk[CachePath] = TextFile(Stringify(FullValue))

\* C6 (amended): as claimed, but for a failure of writeFile itself: a call
\* that finds no file and throws has created none unless its writeFile has
\* failed after the open; a file at cachePath has been created by a call
\* that has opened it; once the writes are over the file holds the text of
\* the value unless the writeFile of some call has failed
C6_MissComputesAndStores ==
  /\ MissComputes
  /\ \A c \in CacheCalls :
       (cache[c].how = "absent" /\ cache[c].pc = "thrown") =>
         /\ cache[c].err \in PipelineErrors \cup {"WriteFailed"}
         /\ cache[c].wrote => cache[c].err = "WriteFailed"
  /\ (CachePath # grib.filePath /\ disk[CachePath] # Absent) =>
       \E c \in CacheCalls : cache[c].wrote
  /\ (MissStored /\ \A c \in CacheCalls : cache[c].err # "WriteFailed") =>
       disk[CachePath] = TextFile(Stringify(FullValue))

\* one call has missed, has computed and stored the value and has returned
\* it; another has missed and its decoder has failed; a deletion of the
\* record is under way
C6_Witness ==
  \E c, d \in CacheCalls :
    /\ cache[c].how = "absent" /\ cache[c].pc = "returned"
    /\ disk[CachePath] = TextFile(Stringify(cache[c].val))
    /\ cache[d].how = "absent" /\ cache[d].pc = "thrown"
    /\ cache[d].err = "DecodeFailure" /\ cache[d].ran = 4
    /\ grib.toDelete > 0

\* C7: two calls that both found no file at cachePath are not deduplicated:
\* each of them that returns has run its own four decoder processes and has
\* written cachePath itself
C7_NoDeduplication ==
  \A c, d \in CacheCalls :
    (c # d /\ cache[c].how = "absent" /\ cache[d].how = "absent"
       /\ cache[c].pc = "returned") =>
      cache[c].ran = 4 /\ cache[c].wrote

\* both calls have missed, have run the decoder and are writing cachePath
C7_Witness ==
  \E c, d \in CacheCalls :
    /\ c # d
    /\ cache[c].how = "absent" /\ cache[d].how = "absent"
    /\ cache[c].ran = 4 /\ cache[d].ran = 4
    /\ cache[c].pc = "writing" /\ cache[d].pc = "returned"
    /\ cache[d].wrote

\* the uploaded file has a message with a wind short name for both
\* components, and for some component none of them is at 10 m above ground
AlternativesOnly ==
  LET ms == disk[grib.filePath].messages
      IsU(i) == ms[i].shortName \in {"10u", "u"}
      IsV(i) == ms[i].shortName \in {"10v", "v"}
      At10(i) == ms[i].typeOfLevel = "heightAboveGround" /\ ms[i].level = 10
      all == 1 .. Len(ms)
  IN /\ disk[grib.filePath].kind = "grib"
     /\ \E i \in all : IsU(i)
     /\ \E i \in all : IsV(i)
     /\ \/ \A i \in all : IsU(i) => ~At10(i)
        \/ \A i \in all : IsV(i) => ~At10(i)

\* C25: the single-step parser, when a component has no message at 10 m
\* above ground and both components have a message with a wind short name,
\* uses those messages and returns velocity data instead of failing (the
\* decoder working and the cache file being writable)
C25_AlternativesUsed ==
  \A c \in CacheCalls :
    ( /\ AlternativesOnly
      /\ CacheSettled(c)
      /\ cache[c].how = "absent"
      /\ cache[c].err \notin {"DecoderUnavailable", "SpawnFailed",
                              "DecodeFailure", "WriteFailed"} )
      => (cache[c].pc = "returned" /\ cache[c].val # <<>>)

\* C29: a call that has found the cache file present and returns, returns
\* the complete value, never one read from a text that is cut: it has read
\* the whole text, or it has run the decoder on the source file and returns
\* what it computed
C29_NoPartialValue ==
  \A c \in CacheCalls :
    (cache[c].found /\ cache[c].pc = "returned") =>
      /\ cache[c].val = FullValue
      /\ \/ cache[c].how = "hit" /\ cache[c].ran = 0
         \/ cache[c].how = "unreadable" /\ cache[c].ran = 4 /\ cache[c].wrote

\* call c has found the file another call d is writing, has read a cut
\* text, has computed the value itself and returns while d is still writing
C29_Witness ==
  \E c, d \in CacheCalls :
    /\ c # d
    /\ CachePath # grib.filePath
    /\ cache[c].found /\ cache[c].how = "unreadable"
    /\ cache[c].pc = "returned" /\ cache[c].val = FullValue
    /\ cache[d].pc = "writing" /\ cache[d].sent >= 1

\* C16: in both headers parseTimeStep returns, la1 >= la2 and lo1 <= lo2:
\* la1 is the larger and la2 the smaller latitude of the two corner points,
\* lo1 the smaller and lo2 the larger of their normalized longitudes
C16_HeaderCorners ==
  gPc = "done" =>
    \A n \in {1, 2} :
      LET h == gResult[n].header
          lats == {gMsg.latitudeOfFirstGridPoint, gMsg.latitudeOfLastGridPoint}
          lons == {NormalizeLon(gMsg.longitudeOfFirstGridPoint),
                   NormalizeLon(gMsg.longitudeOfLastGridPoint)}
      IN /\ h.la1 >= h.la2 /\ h.lo1 <= h.lo2
         /\ {h.la1, h.la2} = lats
         /\ {h.lo1, h.lo2} = lons

\* the first grid point is the northern one and its longitude, 0, is east of
\* the last one's, 359, once that is normalized to -1
C16_Witness ==
  /\ gPc = "done"
  /\ gMsg.latitudeOfFirstGridPoint > gMsg.latitudeOfLastGridPoint
  /\ gMsg.longitudeOfFirstGridPoint = 0
  /\ gMsg.longitudeOfLastGridPoint = 359
  /\ gResult[2].header.lo1 = -1
  /\ gResult[2].header.lo2 = 0
  /\ gResult[2].header.la1 = 2

\* ------------------------------------------- longitude normalization alone

\* bound: the input longitudes are -MaxLon .. MaxLon
MaxLon == 720

\* the conversion of a longitude
NormalizeOnce ==
  /\ calc.pc = "lon"
  /\ calc' = [calc EXCEPT !.pc = "once", !.once = NormalizeLon(calc.lon)]
  /\ UNCHANGED outsideCalc

\* the conversion of the converted value
NormalizeAgain ==
  /\ calc.pc = "once"
  /\ calc' = [calc EXCEPT !.pc = "twice", !.twice = NormalizeLon(calc.once)]
  /\ UNCHANGED outsideCalc

InitLon ==
  /\ InitParse
  /\ viaBuffer = [c \in Calls |-> FALSE]
  /\ file = <<>>
  /\ GridIdle
  /\ CacheIdle
  /\ \E lon \in -MaxLon .. MaxLon :
       calc = [pc |-> "lon", lon |-> lon, once |-> 0, twice |-> 0]

NextLon == NormalizeOnce \/ NormalizeAgain

\* the longitude conversion applied to one input, then to its result
SpecLon == InitLon /\ [][NextLon]_vars

\* C10 (as claimed): any input longitude is converted to a value of the
\* half-open range [-180, 180)
C10_HalfOpenForAnyInput ==
  calc.pc = "once" => (-180 <= calc.once /\ calc.once < 180)

\* C10 (amended): the converted value lies in the closed range [-180, 180]
\* exactly when the input lies in [-180, 540]; it is 180 exactly when the
\* input is 180, which is left as it is, or 540; an input of the 0-360
\* convention, 0 <= L <= 360, is converted into (-180, 180]
C10_ClosedRangeUpTo540 ==
  calc.pc = "once" =>
    /\ (-180 <= calc.lon /\ calc.lon <= 540)
          <=> (-180 <= calc.once /\ calc.once <= 180)
    /\ calc.once = 180 <=> calc.lon \in {180, 540}
    /\ (0 <= calc.lon /\ calc.lon <= 360)
          => (-180 < calc.once /\ calc.once <= 180)
    /\ calc.lon < -180 => calc.once = calc.lon
    /\ calc.lon > 540 => calc.once = calc.lon - 360

\* the largest input that is converted into the range, and its image
C10_Witness ==
  /\ calc.pc = "once"
  /\ calc.lon = 540
  /\ calc.once = 180

\* C11 (as claimed): for any input longitude, converting the converted value
\* again changes nothing
C11_IdempotentAnywhere ==
  calc.pc = "twice" => calc.twice = calc.once

\* C11 (amended): for an input longitude of at most 540 the conversion is
\* idempotent; a larger input is still above 180 after one conversion and
\* loses another 360 in the second
C11_IdempotentUpTo540 ==
  calc.pc = "twice" =>
    /\ calc.lon <= 540 => calc.twice = calc.once
    /\ calc.lon > 540 => calc.twice = calc.once - 360

\* a longitude of the 0-360 convention has been converted twice
C11_Witness ==
  /\ calc.pc = "twice"
  /\ calc.lon = 359
  /\ calc.once = -1
  /\ calc.twice = -1

\* ------------------------------------------- reference time and valid time

\* An ISO time string is modelled by its fields <<year, month, day, hour,
\* minute>> (UTC); the seconds, and the milliseconds toISOString writes, are 0.

IsLeap(y) == (y % 4 = 0 /\ y % 100 # 0) \/ y % 400 = 0

DaysInMonth(y, mo) ==
  IF mo = 2 THEN (IF IsLeap(y) THEN 29 ELSE 28)
  ELSE IF mo \in {4, 6, 9, 11} THEN 30 ELSE 31

\* the date n days after <<y, mo, d>>, as Date carries an overflow of the day
\* into the month and the year
RECURSIVE AddDays(_, _)
AddDays(date, n) ==
  IF n = 0 THEN date
  ELSE IF date[3] < DaysInMonth(date[1], date[2])
    THEN AddDays(<<date[1], date[2], date[3] + 1>>, n - 1)
  ELSE IF date[2] < 12
    THEN AddDays(<<date[1], date[2] + 1, 1>>, n - 1)
  ELSE AddDays(<<date[1] + 1, 1, 1>>, n - 1)

\* mutant: the hours that pass midnight are not carried into the day
calculateValidTimeNoCarry(refTime, forecastHour) ==
  <<refTime[1], refTime[2], refTime[3], (refTime[4] + forecastHour) % 24,
    refTime[5]>>

\* calculateValidTime: refDate.setUTCHours(refDate.getUTCHours() +
\* forecastHour); return refDate.toISOString()
calculateValidTime(refTime, forecastHour) ==
  LET total == refTime[4] + forecastHour
      date == AddDays(<<refTime[1], refTime[2], refTime[3]>>, total \div 24)
  IN <<date[1], date[2], date[3], total % 24, refTime[5]>>

\* const refTime = refTimeOverride || formatGribTime(firstMsg.dataDate,
\* firstMsg.dataTime); <<>> stands for no override
SeriesRefTime(refTimeOverride, firstMsg) ==
  IF refTimeOverride # <<>> THEN refTimeOverride
  ELSE formatGribTime(firstMsg.dataDate, firstMsg.dataTime)

\* buildHeader: the time fields of a header
HeaderTimes(refTime, forecastTime) ==
  [refTime |-> refTime, forecastTime |-> forecastTime]

\* one pass of the loop for uMsg: parseTimeStep builds both headers from
\* refTime and uMessage.stepRange, then the step is pushed
TimeStepTimes(refTime, forecastHour, uMsg) ==
  [forecastHour |-> forecastHour,
   validTime |-> calculateValidTime(refTime, forecastHour),
   u |-> HeaderTimes(refTime, uMsg.stepRange),
   v |-> HeaderTimes(refTime, uMsg.stepRange)]

\* bound: the forecast hours are 0 .. MaxHour
MaxHour == 30

\* reference dates of the first message: an ordinary day, the days before a
\* leap day and before a year's end, the end of February of a common year
RefDates == {<<2024, 1, 1>>, <<2024, 2, 28>>, <<2023, 12, 31>>, <<2023, 2, 28>>}

RefClocks == {<<0, 0>>, <<6, 0>>, <<18, 0>>}

Overrides == {<<>>, <<2024, 1, 1, 0, 0>>, <<2023, 12, 31, 21, 30>>}

\* the reference time of the series is determined
ResolveRefTime ==
  /\ calc.pc = "listed"
  /\ calc' = [calc EXCEPT !.pc = "loop",
                          !.refTime = SeriesRefTime(calc.override, calc.firstMsg)]
  /\ UNCHANGED outsideCalc

\* the next forecast hour is parsed and its step pushed
PushTimeStep ==
  /\ calc.pc = "loop"
  /\ calc.hours # <<>>
  /\ LET forecastHour == Head(calc.hours)
     IN calc' = [calc EXCEPT
                   !.hours = Tail(@),
                   !.timeSteps = Append(@, TimeStepTimes(calc.refTime, forecastHour,
                                                         [stepRange |-> forecastHour]))]
  /\ UNCHANGED outsideCalc

\* return {timeSteps, refTime}
ReturnSeries ==
  /\ calc.pc = "loop"
  /\ calc.hours = <<>>
  /\ calc' = [calc EXCEPT !.pc = "returned"]
  /\ UNCHANGED outsideCalc

InitTime ==
  /\ InitParse
  /\ viaBuffer = [c \in Calls |-> FALSE]
  /\ file = <<>>
  /\ GridIdle
  /\ CacheIdle
  /\ \E date \in RefDates, clk \in RefClocks, override \in Overrides,
        h1 \in 0 .. MaxHour, h2 \in 0 .. MaxHour :
       /\ h1 < h2
       /\ calc = [pc |-> "listed",
                  firstMsg |-> [dataDate |-> date[1] * 10000 + date[2] * 100 + date[3],
                                dataTime |-> clk[1] * 100 + clk[2]],
                  first |-> <<date[1], date[2], date[3], clk[1], clk[2]>>,
                  override |-> override,
                  hours |-> <<h1, h2>>,
                  refTime |-> <<>>,
                  timeSteps |-> <<>>]

NextTime == ResolveRefTime \/ PushTimeStep \/ ReturnSeries

\* the times of a series of two forecast hours
SpecTime == InitTime /\ [][NextTime]_vars

\* the days from 1970-01-01 to a date of the Gregorian calendar
DaysFromCivil(y, mo, d) ==
  LET yy == IF mo <= 2 THEN y - 1 ELSE y
      era == yy \div 400
      yoe == yy - era * 400
      mp == IF mo > 2 THEN mo - 3 ELSE mo + 9
      doy == (153 * mp + 2) \div 5 + d - 1
      doe == yoe * 365 + yoe \div 4 - yoe \div 100 + doy
  IN era * 146097 + doe - 719468

\* the minutes from the epoch to a time
EpochMinutes(t) == (DaysFromCivil(t[1], t[2], t[3]) * 24 + t[4]) * 60 + t[5]

\* C15: in a returned series every step's validTime is the series' refTime
\* plus forecastHour hours, both headers of the step carry the series'
\* refTime and forecastTime = forecastHour, and the series' refTime is the
\* override when one is given, else the first message's date and time
C15_SharedReferenceTime ==
  calc.pc = "returned" =>
    /\ calc.refTime = IF calc.override # <<>> THEN calc.override ELSE calc.first
    /\ Len(calc.timeSteps) = 2
    /\ \A i \in 1 .. Len(calc.timeSteps) :
         LET step == calc.timeSteps[i] IN
         /\ EpochMinutes(step.validTime)
              = EpochMinutes(calc.refTime) + 60 * step.forecastHour
         /\ step.validTime[3] \in 1 .. DaysInMonth(step.validTime[1], step.validTime[2])
         /\ step.validTime[4] \in 0 .. 23
         /\ step.u.refTime = calc.refTime /\ step.v.refTime = calc.refTime
         /\ step.u.forecastTime = step.forecastHour
         /\ step.v.forecastTime = step.forecastHour

\* 2024-02-28T18:00Z + 6 h is the leap day, + 30 h is 2024-03-01T00:00Z
C15_Witness ==
  /\ calc.pc = "returned"
  /\ calc.override = <<>>
  /\ calc.refTime = <<2024, 2, 28, 18, 0>>
  /\ calc.timeSteps[1].forecastHour = 6
  /\ calc.timeSteps[1].validTime = <<2024, 2, 29, 0, 0>>
  /\ calc.timeSteps[2].forecastHour = 30
  /\ calc.timeSteps[2].validTime = <<2024, 3, 1, 0, 0>>

\* ------------------------------------------------- temp files of two calls

\* the calls whose decoder reads their staged upload
Decoding == {c \in Calls : viaBuffer[c] /\ pc[c] \in {"probing", "meta", "hour"}}

\* C27: two calls that hold a temp path at the same time hold distinct
\* paths, and the file a call is decoding is the one it wrote, neither
\* overwritten nor deleted by another call
C27_DistinctTempPaths ==
  /\ \A c, d \in Calls :
       (c # d /\ tempPath[c] # NoPath /\ tempPath[d] # NoPath)
          => tempPath[c] # tempPath[d]
  /\ \A c \in Decoding : tempFiles[tempPath[c]] = UploadOf(c)

\* ------------------------------------------ decoders at the slot's release

\* the calls that have left their try block: the slot is given back
Released == {c \in Calls : viaBuffer[c] /\ pc[c] \in {"unlink", "returned", "thrown"}}

\* C20: when parseGribBuffer has released its slot, no decoder process the
\* call started is still running, also when one of the two point dumps of a
\* time step failed while the other was in progress; so the running decoder
\* processes never exceed two per held slot
C20_NoDecoderAfterRelease ==
  /\ \A c \in Released : child[c].u # "running" /\ child[c].v # "running"
  /\ Cardinality(RunningProcs) <= 2 * activeParses

\* ------------------------------------------- reconstruction of a full dump

\* bound: the grids are 2 .. MaxWidth points wide
MaxWidth == 3

\* the grids are 2 or 3 points high
Heights == {2, 3}

\* the longitude convention of the file and the longitude of its western
\* column: a grid east of Greenwich, one across Greenwich and one across the
\* antimeridian in the 0-360 convention, one across Greenwich in the
\* -180..180 convention
GridOrigins == {<<360, 0>>, <<360, 358>>, <<360, 179>>, <<180, -1>>}

\* the longitude the decoder prints for column k (from the west, from 0)
PrintedLon(origin, k) ==
  IF origin[1] = 360 THEN (origin[2] + k) % 360 ELSE origin[2] + k

\* the value stored at row r (from the north, from 0) and column k
SampleValue(r, k) == 10 * (r + 1) + k + 1

\* the dump of the whole grid, one line per point, north row first, rows of
\* latitude ny - 1 down to 0
FullDump(origin, nx, ny) ==
  [n \in 1 .. nx * ny |->
     LET r == (n - 1) \div nx
         k == (n - 1) % nx
     IN <<Num(ny - 1 - r), Num(PrintedLon(origin, k)), Num(SampleValue(r, k))>>]

\* the lines of a dump in another order: from line `first` on, around the
\* end, forwards or backwards
Reordered(lines, first, backwards) ==
  [n \in 1 .. Len(lines) |->
     LET m == ((first - 1 + n - 1) % Len(lines)) + 1
     IN IF backwards THEN lines[Len(lines) + 1 - m] ELSE lines[m]]

\* extractMessageData on the lines of the dump
ReconstructDump ==
  /\ calc.pc = "dump"
  /\ calc' = [calc EXCEPT !.pc = "grid",
                          !.grid = ExtractMessageData(calc.lines, calc.nx, calc.ny)]
  /\ UNCHANGED outsideCalc

InitDump ==
  /\ InitParse
  /\ viaBuffer = [c \in Calls |-> FALSE]
  /\ file = <<>>
  /\ GridIdle
  /\ CacheIdle
  /\ \E nx \in 2 .. MaxWidth, ny \in Heights, origin \in GridOrigins,
        backwards \in BOOLEAN :
       \E first \in 1 .. nx * ny :
         calc = [pc |-> "dump", nx |-> nx, ny |-> ny, origin |-> origin,
                 lines |-> Reordered(FullDump(origin, nx, ny), first, backwards),
                 grid |-> <<>>]

NextDump == ReconstructDump

\* the reconstruction of the grid of a complete dump
SpecDump == InitDump /\ [][NextDump]_vars

\* the number of elements of S below x
RankIn(x, S) == Cardinality({y \in S : y < x})

\* C19: for a complete regular dump in any line order, entry j * nx + i of
\* the result is the value of the point at the j-th latitude from the north
\* and the i-th normalized longitude from the west
C19_RowMajorFromNorthWest ==
  calc.pc = "grid" =>
    LET lats == {LatOf(calc.lines[n]) : n \in 1 .. Len(calc.lines)}
        lons == {LonOf(calc.lines[n]) : n \in 1 .. Len(calc.lines)}
    IN /\ Len(calc.grid) = calc.nx * calc.ny
       /\ \A n \in 1 .. Len(calc.lines) :
            LET line == calc.lines[n]
                i == RankIn(LonOf(line), lons)
                j == Cardinality(lats) - 1 - RankIn(LatOf(line), lats)
            IN calc.grid[j * calc.nx + i + 1] = line[3].v

\* ------------------------------------------------------------ the TimeSlider

\* bound: a series has 2 .. MaxSteps time steps
MaxSteps == 4

\* no value: intervalRef.current = null, no update waiting for a render
None == -1

\* Math.max(0, currentIndex - 1)
StepBack(currentIndex) == Max2(0, currentIndex - 1)

\* Math.min(timeSteps.length - 1, currentIndex + 1)
StepForward(currentIndex, length) == Min2(length - 1, currentIndex + 1)

\* mutant: the auto-advance does not wrap
AutoAdvanceNoWrap(currentIndex, length) == currentIndex + 1

\* (currentIndexRef.current + 1) % timeStepsLengthRef.current
AutoAdvance(currentIndex, length) == (currentIndex + 1) % length

\* setInterval returns an id no active timer has
NextTimerId(active) == CHOOSE id \in 1 .. (Cardinality(active) + 1) : id \notin active

\* A handler of a click or of a key calls onTimeChange(index): Viewer sets
\* currentTimeIndex, and both components render again and their effects run
\* before the next event (the refs and the keydown listener are in sync); an
\* update of a timer tick that was waiting for its render is overridden
UserSets(op, index) ==
  /\ calc' = [calc EXCEPT !.op = op, !.currentIndex = index,
                          !.currentIndexRef = index, !.listenerIndex = index,
                          !.queued = None]
  /\ UNCHANGED outsideCalc

\* the button "Previous", disabled at the first step
Previous ==
  /\ calc.pc = "slider"
  /\ calc.currentIndex # 0
  /\ UserSets("previous", StepBack(calc.currentIndex))

\* the button "Next", disabled at the last step
NextStep ==
  /\ calc.pc = "slider"
  /\ calc.currentIndex # calc.length - 1
  /\ UserSets("next", StepForward(calc.currentIndex, calc.length))

\* keydown ArrowLeft reaches the handleKeyDown that is registered on window:
\* the closure of the last render whose effect has run
ArrowLeft ==
  /\ calc.pc = "slider"
  /\ UserSets("ArrowLeft", StepBack(calc.listenerIndex))

\* keydown ArrowRight, likewise
ArrowRight ==
  /\ calc.pc = "slider"
  /\ UserSets("ArrowRight", StepForward(calc.listenerIndex, calc.length))

\* the range input (min 0, max length - 1) or the button of a step
SelectStep ==
  /\ calc.pc = "slider"
  /\ \E idx \in 0 .. (calc.length - 1) : UserSets("select", idx)

\* togglePlay, the render and the effect on [isPlaying]: an effect that was
\* waiting is run before the render; the cleanup of the effect before clears
\* the timer of intervalRef; then a timer is started, or the timer of
\* intervalRef is cleared and the ref set to null. An update of a timer tick
\* that is waiting for its render stays waiting, or is applied by the render
\* of the toggle (index, ref and keydown listener are then those of the
\* tick): which of the two depends on the version of React, which the
\* sources do not fix
TogglePlay ==
  /\ calc.pc = "slider"
  /\ \E index \in {calc.currentIndex} \cup ({calc.queued} \ {None}) :
       LET cleared == calc.active \ {calc.intervalRef}
           id == NextTimerId(cleared)
           queued == IF index = calc.queued THEN None ELSE calc.queued
       IN calc' = IF ~calc.isPlaying
                    THEN [calc EXCEPT !.op = "toggle", !.isPlaying = TRUE,
                                      !.intervalRef = id,
                                      !.active = cleared \cup {id},
                                      !.currentIndex = index,
                                      !.currentIndexRef = index,
                                      !.listenerIndex = index,
                                      !.queued = queued]
                    ELSE [calc EXCEPT !.op = "toggle", !.isPlaying = FALSE,
                                      !.intervalRef = None,
                                      !.active = cleared,
                                      !.currentIndex = index,
                                      !.currentIndexRef = index,
                                      !.listenerIndex = index,
                                      !.queued = queued]
  /\ UNCHANGED outsideCalc

\* a timer fires: onTimeChange((currentIndexRef.current + 1) % length); the
\* update waits for its render
Tick ==
  /\ calc.pc = "slider"
  /\ calc.active # {}
  /\ calc' = [calc EXCEPT !.op = "tick",
                          !.queued = AutoAdvance(calc.currentIndexRef, calc.length)]
  /\ UNCHANGED outsideCalc

\* the render after a tick: an effect of the render before that was waiting
\* is run first; currentTimeIndex is what the tick set, the refs are set
\* during the render, and the effect on [currentIndex, ...] waits
RenderTick ==
  /\ calc.pc = "slider"
  /\ calc.queued # None
  /\ calc' = [calc EXCEPT !.op = "render", !.currentIndex = calc.queued,
                          !.currentIndexRef = calc.queued, !.queued = None,
                          !.listenerIndex = calc.currentIndex]
  /\ UNCHANGED outsideCalc

\* the effect on [currentIndex, ...] of the render after a tick runs, in a
\* later task: the handleKeyDown of the render before is removed and the one
\* of this render is registered
RunEffect ==
  /\ calc.pc = "slider"
  /\ calc.listenerIndex # calc.currentIndex
  /\ calc' = [calc EXCEPT !.op = "effect",
                          !.listenerIndex = calc.currentIndex]
  /\ UNCHANGED outsideCalc

\* useState(0), useState(false), useRef(null)
InitSlider ==
  /\ InitParse
  /\ viaBuffer = [c \in Calls |-> FALSE]
  /\ file = <<>>
  /\ GridIdle
  /\ CacheIdle
  /\ \E n \in 2 .. MaxSteps :
       calc = [pc |-> "slider", length |-> n, currentIndex |-> 0,
               currentIndexRef |-> 0, listenerIndex |-> 0,
               isPlaying |-> FALSE, intervalRef |-> None,
               active |-> {}, queued |-> None, op |-> "mount"]

NextSlider ==
  \/ Previous
  \/ NextStep
  \/ ArrowLeft
  \/ ArrowRight
  \/ SelectStep
  \/ TogglePlay
  \/ Tick
  \/ RenderTick
  \/ RunEffect

\* the Viewer of a series of several time steps and its TimeSlider
SpecSlider == InitSlider /\ [][NextSlider]_vars

\* C30: after every operation the current index is in 0 .. n - 1; previous
\* goes one step back and next one step on from the index shown, ArrowLeft
\* and ArrowRight from the index of the render whose keydown listener is
\* registered, and they stay at 0 and at n - 1; a tick goes one step on from
\* the index shown and from n - 1 to 0; a toggle leaves the index shown or
\* shows the index a waiting tick has asked for; at most one timer is
\* active, none while paused
C30_IndexInRange ==
  [][LET n == calc.length
         shown == calc.currentIndex
         heard == calc.listenerIndex
         now == calc'.currentIndex
     IN /\ now \in 0 .. (n - 1)
        /\ calc'.listenerIndex \in 0 .. (n - 1)
        /\ calc'.queued \in {None} \cup (0 .. (n - 1))
        /\ Cardinality(calc'.active) <= 1
        /\ ~calc'.isPlaying => calc'.active = {}
        /\ calc'.isPlaying => calc'.active = {calc'.intervalRef}
        /\ calc'.op = "previous" => now = IF shown = 0 THEN 0 ELSE shown - 1
        /\ calc'.op = "next" =>
             now = IF shown = n - 1 THEN n - 1 ELSE shown + 1
        /\ calc'.op = "ArrowLeft" => now = IF heard = 0 THEN 0 ELSE heard - 1
        /\ calc'.op = "ArrowRight" =>
             now = IF heard = n - 1 THEN n - 1 ELSE heard + 1
        /\ calc'.op = "effect" => now = shown
        /\ calc'.op = "toggle" =>
             /\ calc'.isPlaying = ~calc.isPlaying
             /\ \/ now = shown /\ calc'.queued = calc.queued
                \/ now = calc.queued /\ calc'.queued = None
             /\ calc'.listenerIndex = now
        /\ calc'.op = "tick" =>
             /\ now = shown
             /\ calc'.queued = IF shown = n - 1 THEN 0 ELSE shown + 1
        /\ calc'.op = "render" => now = calc.queued]_vars

\* the animation is playing at the last of three steps, the keydown listener
\* is still the one of the step before, and a tick has asked for step 0
C30_Witness ==
  /\ calc.pc = "slider"
  /\ calc.length = 3
  /\ calc.isPlaying
  /\ calc.op = "tick"
  /\ calc.currentIndex = 2
  /\ calc.listenerIndex = 1
  /\ calc.queued = 0
  /\ calc.active = {1}

====
